---- MODULE Spec2Model ----
(***************************************************************************)
(* CineDrive backend: URL freshness and rate-governed refresh subsystem.   *)
(*                                                                         *)
(* server.js       rateLimiter, fbRateLimiter, the request middleware,     *)
(*                 GET /api/health, GET /api/cache/stats,                  *)
(*                 GET /api/video/:id, POST /api/refresh/:id,              *)
(*                 GET /api/video/episode/:id, the 404 and error handlers, *)
(*                 backgroundRefresh, the SIGINT handler                   *)
(* cacheService.js updateVideoCache, getCachedVideo, clearExpiredCache,    *)
(*                 getCacheStats                                           *)
(* videoScraper.js extractExpiration, validateUrl, getFreshVideoUrl        *)
(*                                                                         *)
(* Node runs every synchronous stretch of a handler to completion, so a    *)
(* handler is a sequence of atomic steps cut at its awaits.  Time is in    *)
(* milliseconds counted from an arbitrary origin.                          *)
(*                                                                         *)
(* A URL is a sequence of tokens: the markers the code searches for        *)
(* ("fbcdn.net", "plugins", ".mp4", "?oe=", ...) are single tokens, a      *)
(* digit or hexadecimal digit is a one-character token, any other text is  *)
(* an opaque token.  The empty sequence is the absent (NULL / "") string.  *)
(***************************************************************************)
EXTENDS Integers, Sequences, FiniteSets, TLC

(***************************************************************************)
(* Program constants                                                       *)
(***************************************************************************)
maxRequests == 10
windowMs == 60000
cleanupGraceMs == 60000
minDelayMs == 3000
refreshBeforeExpiryHours == 2
intervalMs == 3600000
batchLimit == 5
interItemDelayMs == 5000
episodeCacheMs == 4 * 60 * 60 * 1000
defaultExpiryMs == 24 * 60 * 60 * 1000
HourMs == 60 * 60 * 1000

\* by how much the local clock of a zone is put forward (daylight saving
\* begins) or back (it ends): half an hour (Australia/Lord_Howe), an hour
\* (most zones) or two hours (Antarctica/Troll)
ClockShifts ==
    {-2 * HourMs, -HourMs, -(HourMs \div 2), HourMs \div 2, HourMs, 2 * HourMs}

(***************************************************************************)
(* Bounds of the model                                                     *)
(***************************************************************************)
StartTime == 10000
\* the limiter clock is sampled at the first MaxFine half seconds of each of
\* MaxWindows + 1 consecutive window lengths
MaxFine == 1
MaxWindows == 2
\* check calls answered "denied" that are followed inside one window
MaxDenied == 2
\* requests of a client that reach the rate limiter within one window
MaxClientRequests == 2
\* calls of backgroundRefresh.start() and passes of the scheduler followed
MaxStartCalls == 3
MaxPasses == 3
\* pieces of the strings handed to extractExpiration
MaxUrlTokens == 4

\* rows of the movies table when the SELECT of a pass is followed
MaxQueryRows == 6

\* the server clock is sampled around the thresholds the code compares with:
\* the start, half a second later, minDelayMs after the start (half a second
\* short of minDelayMs after the second sample), and an instant by which
\* every wait begun before minDelayMs is over
ServerTimes ==
    {StartTime + o :
        o \in {0, 500, minDelayMs, minDelayMs + interItemDelayMs + 1000}}

LimiterTimes ==
    {StartTime + windowMs * w + 500 * f : w \in 0..MaxWindows, f \in 0..MaxFine}

\* the absent value (null, NULL) of a number or an instant
Nil == -1
NoUrl == << >>

CeilDiv(a, b) == -((-a) \div b)

Min(S) == CHOOSE x \in S : \A y \in S : x <= y

(***************************************************************************)
(* Strings                                                                 *)
(***************************************************************************)
Includes(url, marker) == \E i \in 1..Len(url) : url[i] = marker

StartsWith(url, marker) == Len(url) >= 1 /\ url[1] = marker

DigitValue ==
    [c \in {"0", "1", "2", "3", "4", "5", "6", "7", "8", "9"} |->
        CASE c = "0" -> 0 [] c = "1" -> 1 [] c = "2" -> 2 [] c = "3" -> 3
          [] c = "4" -> 4 [] c = "5" -> 5 [] c = "6" -> 6 [] c = "7" -> 7
          [] c = "8" -> 8 [] c = "9" -> 9]

HexValue ==
    [c \in {"0", "1", "2", "3", "4", "5", "6", "7", "8", "9",
            "A", "B", "C", "D", "E", "F", "a", "b", "c", "d", "e", "f"} |->
        CASE c \in DOMAIN DigitValue -> DigitValue[c]
          [] c \in {"A", "a"} -> 10 [] c \in {"B", "b"} -> 11
          [] c \in {"C", "c"} -> 12 [] c \in {"D", "d"} -> 13
          [] c \in {"E", "e"} -> 14 [] c \in {"F", "f"} -> 15]

IsDigit(tok) == tok \in DOMAIN DigitValue

IsHex(tok) == tok \in DOMAIN HexValue

\* the index of the last token of the run of tokens satisfying Test that
\* starts at index i (i - 1 when url[i] does not satisfy it)
RECURSIVE HexRunEnd(_, _)
HexRunEnd(url, i) ==
    IF i <= Len(url) /\ IsHex(url[i]) THEN HexRunEnd(url, i + 1) ELSE i - 1

RECURSIVE DigitRunEnd(_, _)
DigitRunEnd(url, i) ==
    IF i <= Len(url) /\ IsDigit(url[i]) THEN DigitRunEnd(url, i + 1) ELSE i - 1

\* parseInt(s, 16) of a non-empty run of hexadecimal digits
RECURSIVE ParseHex(_)
ParseHex(digits) ==
    IF digits = << >> THEN 0
    ELSE 16 * ParseHex(SubSeq(digits, 1, Len(digits) - 1))
            + HexValue[digits[Len(digits)]]

\* the strings /[&?]oe=/i matches
OeMarkers ==
    {"?oe=", "&oe=", "?OE=", "&OE=", "?Oe=", "&Oe=", "?oE=", "&oE="}

\* url.match(/[&?]oe=([A-F0-9]+)/i): the first capture, << >> without a match
OeMatch(url) ==
    LET hits == {i \in 1..Len(url) :
                    /\ url[i] \in OeMarkers
                    /\ i + 1 <= Len(url)
                    /\ IsHex(url[i + 1])}
    IN  IF hits = {} THEN << >>
        ELSE LET i == Min(hits) IN SubSeq(url, i + 1, HexRunEnd(url, i + 1))

\* videoUrl.match(/(?:videos?\/|[\?&]v=)(\d+)/): the first capture
VideoIdMatch(url) ==
    LET hits == {i \in 1..Len(url) :
                    /\ url[i] \in {"videos/", "video/", "?v=", "&v="}
                    /\ i + 1 <= Len(url)
                    /\ IsDigit(url[i + 1])}
    IN  IF hits = {} THEN << >>
        ELSE LET i == Min(hits) IN SubSeq(url, i + 1, DigitRunEnd(url, i + 1))

\* a Date whose time value is NaN: what new Date(ms) is when ms is beyond
\* 8.64e15 or is not a finite number
InvalidDate == -2

\* the largest count of seconds of which new Date(seconds * 1000) is a valid
\* Date, 8.64e12, in hexadecimal digits
MaxDateHex == <<"7", "D", "B", "A", "8", "2", "1", "8", "0", "0", "0">>

\* a run of hexadecimal digits without its leading zeros
RECURSIVE StripZeros(_)
StripZeros(digits) ==
    IF digits # << >> /\ digits[1] = "0" THEN StripZeros(Tail(digits))
    ELSE digits

\* of two runs of hexadecimal digits of equal length, a is the greater
RECURSIVE HexGreater(_, _)
HexGreater(a, b) ==
    IF a = << >> THEN FALSE
    ELSE IF HexValue[a[1]] # HexValue[b[1]]
    THEN HexValue[a[1]] > HexValue[b[1]]
    ELSE HexGreater(Tail(a), Tail(b))

\* parseInt(digits, 16) * 1000 is beyond the range of Date; parseInt rounds
\* a value of more than 53 bits to a double, or gives Infinity, and the
\* product stays beyond the range
ExceedsDate(digits) ==
    LET d == StripZeros(digits) IN
    \/ Len(d) > Len(MaxDateHex)
    \/ Len(d) = Len(MaxDateHex) /\ HexGreater(d, MaxDateHex)

\* videoScraper.js extractExpiration, called at time t: nothing in its try
\* throws, and a captured value beyond the range of Date gives an invalid
\* Date, not the fallback
extractExpiration(url, t) ==
    IF OeMatch(url) = << >> THEN t + defaultExpiryMs
    ELSE IF ExceedsDate(OeMatch(url)) THEN InvalidDate
    ELSE ParseHex(OeMatch(url)) * 1000

\* the direct-link test of server.js: contains 'fbcdn.net', not 'plugins'
IsDirectUrl(url) == Includes(url, "fbcdn.net") /\ ~Includes(url, "plugins")

\* the test of the stored source identifier
IsFacebookCDN(url) ==
    /\ StartsWith(url, "https://")
    /\ (Includes(url, "fbcdn.net") \/ Includes(url, "fna.fbcdn.net"))
    /\ Includes(url, ".mp4")

\* expiresAt.toISOString().slice(0, 19): the instant cut to whole seconds
FormatExpiry(t) == (t \div 1000) * 1000

\* the nearest whole second
RoundToSecond(t) == ((t + 500) \div 1000) * 1000

\* a Date handed to the driver as it is, milliseconds included: what the
\* DATETIME column keeps of it is the nearest second (MySQL) or the second
\* begun (MariaDB, MySQL with TIME_TRUNCATE_FRACTIONAL)
DatetimeColumn(t) == {RoundToSecond(t), (t \div 1000) * 1000}

(***************************************************************************)
(* rateLimiter                                                             *)
(***************************************************************************)
IPs == {"10.0.0.1", "10.0.0.2"}

NoRecord == [count |-> 0, resetTime |-> 0]

HasRecord(reqs, ip) == reqs[ip].count > 0

\* Variants of check that the properties of the limiter must tell from it:
\* a window that resets at now >= resetTime, a limit of maxRequests + 1
checkBadReset(reqs, ip, t) ==
    LET record == reqs[ip] IN
    IF ~HasRecord(reqs, ip) \/ t >= record.resetTime
    THEN [requests |-> [reqs EXCEPT ![ip] =
                            [count |-> 1, resetTime |-> t + windowMs]],
          allowed |-> TRUE, remaining |-> maxRequests - 1, retryAfter |-> Nil,
          fresh |-> TRUE]
    ELSE IF record.count >= maxRequests
    THEN [requests |-> reqs,
          allowed |-> FALSE, remaining |-> 0,
          retryAfter |-> CeilDiv(record.resetTime - t, 1000),
          fresh |-> FALSE]
    ELSE [requests |-> [reqs EXCEPT ![ip].count = @ + 1],
          allowed |-> TRUE, remaining |-> maxRequests - (record.count + 1),
          retryAfter |-> Nil, fresh |-> FALSE]

checkOffByOne(reqs, ip, t) ==
    LET record == reqs[ip] IN
    IF ~HasRecord(reqs, ip) \/ t > record.resetTime
    THEN [requests |-> [reqs EXCEPT ![ip] =
                            [count |-> 1, resetTime |-> t + windowMs]],
          allowed |-> TRUE, remaining |-> maxRequests - 1, retryAfter |-> Nil,
          fresh |-> TRUE]
    ELSE IF record.count > maxRequests
    THEN [requests |-> reqs,
          allowed |-> FALSE, remaining |-> 0,
          retryAfter |-> CeilDiv(record.resetTime - t, 1000),
          fresh |-> FALSE]
    ELSE [requests |-> [reqs EXCEPT ![ip].count = @ + 1],
          allowed |-> TRUE, remaining |-> maxRequests - (record.count + 1),
          retryAfter |-> Nil, fresh |-> FALSE]

\* A variant of check whose window slides: a denied call postpones the reset
checkSliding(reqs, ip, t) ==
    LET record == reqs[ip] IN
    IF ~HasRecord(reqs, ip) \/ t > record.resetTime
    THEN [requests |-> [reqs EXCEPT ![ip] =
                            [count |-> 1, resetTime |-> t + windowMs]],
          allowed |-> TRUE, remaining |-> maxRequests - 1, retryAfter |-> Nil,
          fresh |-> TRUE]
    ELSE IF record.count >= maxRequests
    THEN [requests |-> [reqs EXCEPT ![ip].resetTime = t + windowMs],
          allowed |-> FALSE, remaining |-> 0,
          retryAfter |-> CeilDiv(record.resetTime - t, 1000),
          fresh |-> FALSE]
    ELSE [requests |-> [reqs EXCEPT ![ip].count = @ + 1],
          allowed |-> TRUE, remaining |-> maxRequests - (record.count + 1),
          retryAfter |-> Nil, fresh |-> FALSE]

\* A variant of check whose retryAfter is rounded down
checkFloorRetry(reqs, ip, t) ==
    LET record == reqs[ip] IN
    IF ~HasRecord(reqs, ip) \/ t > record.resetTime
    THEN [requests |-> [reqs EXCEPT ![ip] =
                            [count |-> 1, resetTime |-> t + windowMs]],
          allowed |-> TRUE, remaining |-> maxRequests - 1, retryAfter |-> Nil,
          fresh |-> TRUE]
    ELSE IF record.count >= maxRequests
    THEN [requests |-> reqs,
          allowed |-> FALSE, remaining |-> 0,
          retryAfter |-> (record.resetTime - t) \div 1000,
          fresh |-> FALSE]
    ELSE [requests |-> [reqs EXCEPT ![ip].count = @ + 1],
          allowed |-> TRUE, remaining |-> maxRequests - (record.count + 1),
          retryAfter |-> Nil, fresh |-> FALSE]

\* rateLimiter.check(ip) at time t: the new map and the returned object
check(reqs, ip, t) ==
    LET record == reqs[ip] IN
    IF ~HasRecord(reqs, ip) \/ t > record.resetTime
    THEN [requests |-> [reqs EXCEPT ![ip] =
                            [count |-> 1, resetTime |-> t + windowMs]],
          allowed |-> TRUE, remaining |-> maxRequests - 1, retryAfter |-> Nil,
          fresh |-> TRUE]
    ELSE IF record.count >= maxRequests
    THEN [requests |-> reqs,
          allowed |-> FALSE, remaining |-> 0,
          retryAfter |-> CeilDiv(record.resetTime - t, 1000),
          fresh |-> FALSE]
    ELSE [requests |-> [reqs EXCEPT ![ip].count = @ + 1],
          allowed |-> TRUE, remaining |-> maxRequests - (record.count + 1),
          retryAfter |-> Nil, fresh |-> FALSE]

\* A variant of the cleanup pass without the extra window of grace
cleanupNoGrace(reqs, t) ==
    [ip \in IPs |->
        IF HasRecord(reqs, ip) /\ t > reqs[ip].resetTime
        THEN NoRecord ELSE reqs[ip]]

\* A variant of the cleanup pass that deletes records of active windows
cleanupActive(reqs, t) ==
    [ip \in IPs |->
        IF HasRecord(reqs, ip) /\ t > reqs[ip].resetTime - windowMs
        THEN NoRecord ELSE reqs[ip]]

\* one pass of the cleanup timer of startCleanup at time t
cleanup(reqs, t) ==
    [ip \in IPs |->
        IF HasRecord(reqs, ip) /\ t > reqs[ip].resetTime + cleanupGraceMs
        THEN NoRecord ELSE reqs[ip]]

(***************************************************************************)
(* fbRateLimiter                                                           *)
(***************************************************************************)
\* Variants of canScrape that the properties of the throttle must tell from
\* it: a grant that does not stamp lastScrapeTime, a denial at exactly
\* minDelayMs
canScrapeNoStamp(last, t) ==
    LET timeSinceLastScrape == t - last IN
    IF timeSinceLastScrape < minDelayMs
    THEN [allowed |-> FALSE,
          waitTime |-> CeilDiv(minDelayMs - timeSinceLastScrape, 1000),
          lastScrapeTime |-> last]
    ELSE [allowed |-> TRUE, waitTime |-> Nil, lastScrapeTime |-> last]

canScrapeInclusive(last, t) ==
    LET timeSinceLastScrape == t - last IN
    IF timeSinceLastScrape <= minDelayMs
    THEN [allowed |-> FALSE,
          waitTime |-> CeilDiv(minDelayMs - timeSinceLastScrape, 1000),
          lastScrapeTime |-> last]
    ELSE [allowed |-> TRUE, waitTime |-> Nil, lastScrapeTime |-> t]

canScrapeStampAlways(last, t) ==
    LET timeSinceLastScrape == t - last IN
    IF timeSinceLastScrape < minDelayMs
    THEN [allowed |-> FALSE,
          waitTime |-> CeilDiv(minDelayMs - timeSinceLastScrape, 1000),
          lastScrapeTime |-> t]
    ELSE [allowed |-> TRUE, waitTime |-> Nil, lastScrapeTime |-> t]

\* A variant of canScrape whose waitTime is rounded down
canScrapeFloorWait(last, t) ==
    LET timeSinceLastScrape == t - last IN
    IF timeSinceLastScrape < minDelayMs
    THEN [allowed |-> FALSE,
          waitTime |-> (minDelayMs - timeSinceLastScrape) \div 1000,
          lastScrapeTime |-> last]
    ELSE [allowed |-> TRUE, waitTime |-> Nil, lastScrapeTime |-> t]

\* canScrape() at time t with lastScrapeTime = last
canScrape(last, t) ==
    LET timeSinceLastScrape == t - last IN
    IF timeSinceLastScrape < minDelayMs
    THEN [allowed |-> FALSE,
          waitTime |-> CeilDiv(minDelayMs - timeSinceLastScrape, 1000),
          lastScrapeTime |-> last]
    ELSE [allowed |-> TRUE, waitTime |-> Nil, lastScrapeTime |-> t]

(***************************************************************************)
(* Catalog and cache columns (tables movies and episodes)                  *)
(***************************************************************************)
\* a Facebook video id
FacebookId == <<"1", "2", "3">>

\* a captured CDN link that carries its video id and expires at 0xE = 14 s
CdnSourceUrl ==
    <<"https://", "video.", "fbcdn.net", "/", "videos/", "4", "5", "6",
      "/clip", ".mp4", "?oe=", "E">>

\* a CDN link stored as source that carries no video id and expires at 14 s
CdnSourceNoIdUrl ==
    <<"https://", "video.", "fbcdn.net", "/v/", "old", ".mp4", "?oe=", "E">>

\* scraped links: direct with an oe field (0x1E = 30 s), direct without one,
\* and a link under the CDN domain that is a plugin link
DirectUrlOe ==
    <<"https://", "video.", "fbcdn.net", "/v/", "clip", ".mp4", "?oe=", "1", "E">>

DirectUrlNoOe == <<"https://", "scontent.", "fbcdn.net", "/v/", "clip", ".mp4">>

PluginCdnUrl ==
    <<"https://", "video.", "fbcdn.net", "/", "plugins", "/clip", ".mp4",
      "?oe=", "1", "E">>

\* an embed link as older rows hold it
PluginUrl ==
    <<"https://", "www.", "facebook.com", "/", "plugins", "/video.php",
      "?href=", "clip">>

MovieIds == {1, 2, 3}

EpisodeIds == {1, 2}

\* req.params.id: an existing row, a number without a row, not a number
MissingId == 9
NotANumber == -2
RequestIds == MovieIds \cup {MissingId, NotANumber}

IsNaN(id) == id = NotANumber

\* column video_url
MovieVideoUrl(id) ==
    IF id = 1 THEN FacebookId
    ELSE IF id = 2 THEN CdnSourceUrl
    ELSE CdnSourceNoIdUrl

EpisodeVideoUrl(id) == IF id = 1 THEN FacebookId ELSE CdnSourceNoIdUrl

NoCacheRow == [cached_video_url |-> NoUrl, url_expires_at |-> Nil]

\* MySQL NOW(): the DATETIME of the current second
SqlNow(t) == (t \div 1000) * 1000

\* A variant of updateVideoCache without the validation of its arguments
updateVideoCacheNoCheck(mv, movieId, videoUrl, expiresAt, dbOk) ==
    IF ~dbOk \/ expiresAt = InvalidDate THEN [movies |-> mv, ret |-> FALSE]
    ELSE IF movieId \in DOMAIN mv
    THEN [movies |-> [mv EXCEPT ![movieId] =
                        [cached_video_url |-> videoUrl,
                         url_expires_at |->
                            IF expiresAt = Nil THEN Nil
                            ELSE FormatExpiry(expiresAt)]],
          ret |-> TRUE]
    ELSE [movies |-> mv, ret |-> FALSE]

\* A variant of updateVideoCache that keeps the expiry a row already holds
updateVideoCacheKeepExpiry(mv, movieId, videoUrl, expiresAt, dbOk) ==
    IF movieId = 0 \/ IsNaN(movieId) \/ videoUrl = NoUrl \/ expiresAt = Nil
    THEN [movies |-> mv, ret |-> FALSE]
    ELSE IF expiresAt = InvalidDate THEN [movies |-> mv, ret |-> FALSE]
    ELSE IF ~dbOk THEN [movies |-> mv, ret |-> FALSE]
    ELSE IF movieId \in DOMAIN mv
    THEN [movies |-> [mv EXCEPT ![movieId] =
                        [cached_video_url |-> videoUrl,
                         url_expires_at |->
                            IF mv[movieId].url_expires_at # Nil
                            THEN mv[movieId].url_expires_at
                            ELSE FormatExpiry(expiresAt)]],
          ret |-> TRUE]
    ELSE [movies |-> mv, ret |-> FALSE]

\* cacheService.js updateVideoCache; dbOk: the UPDATE does not throw.
\* toISOString() of an invalid Date throws, and the catch returns false
updateVideoCache(mv, movieId, videoUrl, expiresAt, dbOk) ==
    IF movieId = 0 \/ IsNaN(movieId) \/ videoUrl = NoUrl \/ expiresAt = Nil
    THEN [movies |-> mv, ret |-> FALSE]
    ELSE IF expiresAt = InvalidDate THEN [movies |-> mv, ret |-> FALSE]
    ELSE IF ~dbOk THEN [movies |-> mv, ret |-> FALSE]
    ELSE IF movieId \in DOMAIN mv
    THEN [movies |-> [mv EXCEPT ![movieId] =
                        [cached_video_url |-> videoUrl,
                         url_expires_at |-> FormatExpiry(expiresAt)]],
          ret |-> TRUE]
    ELSE [movies |-> mv, ret |-> FALSE]

NoCachedVideo == [valid |-> FALSE, url |-> NoUrl, expiresAt |-> Nil]

\* A variant of getCachedVideo for which expiresAt = now is still valid
getCachedVideoInclusive(mv, movieId, t, dbOk) ==
    IF ~dbOk \/ movieId \notin DOMAIN mv THEN NoCachedVideo
    ELSE LET movie == mv[movieId] IN
         IF movie.cached_video_url = NoUrl \/ movie.url_expires_at = Nil
         THEN NoCachedVideo
         ELSE [valid |-> movie.url_expires_at >= t,
               url |-> movie.cached_video_url,
               expiresAt |-> movie.url_expires_at]

\* A variant of getCachedVideo that tests cached_video_url only
getCachedVideoUrlOnly(mv, movieId, t, dbOk) ==
    IF ~dbOk \/ movieId \notin DOMAIN mv THEN NoCachedVideo
    ELSE LET movie == mv[movieId] IN
         IF movie.cached_video_url = NoUrl
         THEN NoCachedVideo
         ELSE [valid |-> movie.url_expires_at > t,
               url |-> movie.cached_video_url,
               expiresAt |-> movie.url_expires_at]

\* cacheService.js getCachedVideo at time t; dbOk: the SELECT does not throw
getCachedVideo(mv, movieId, t, dbOk) ==
    IF ~dbOk \/ movieId \notin DOMAIN mv THEN NoCachedVideo
    ELSE LET movie == mv[movieId] IN
         IF movie.cached_video_url = NoUrl \/ movie.url_expires_at = Nil
         THEN NoCachedVideo
         ELSE [valid |-> movie.url_expires_at > t,
               url |-> movie.cached_video_url,
               expiresAt |-> movie.url_expires_at]

\* cacheService.js clearExpiredCache at time t
clearExpiredCache(mv, t) ==
    [id \in DOMAIN mv |->
        IF mv[id].url_expires_at # Nil /\ mv[id].url_expires_at < SqlNow(t)
        THEN NoCacheRow ELSE mv[id]]

\* the zone of the process (TZ): the instant of the next change of its local
\* clock and the amount of it; NoChange: a zone without one (UTC)
NoChange == [at |-> Nil, by |-> 0]

\* thresholdStr of checkAndRefresh called at time t in a zone whose local
\* clock changes as zone says: setHours puts the local clock forward by
\* refreshBeforeExpiryHours, and the instant that local time names is written
\* as a string of whole seconds.  A local time the change skips is read with
\* the offset in force before the change
expiryThreshold(t, zone) ==
    LET ahead == refreshBeforeExpiryHours * HourMs
        crosses ==
            /\ zone.at # Nil /\ t < zone.at
            /\ IF zone.by > 0 THEN t + ahead >= zone.at + zone.by
               ELSE t + ahead >= zone.at
    IN  FormatExpiry(t + ahead - (IF crosses THEN zone.by ELSE 0))

\* the WHERE clause of the SELECT of checkAndRefresh, run by the database
\* at time t with the parameter threshold: the ids of the rows it matches
Matching(mv, threshold, t) ==
    {i \in DOMAIN mv :
        /\ mv[i].cached_video_url # NoUrl
        /\ mv[i].url_expires_at # Nil
        /\ mv[i].url_expires_at < threshold
        /\ mv[i].url_expires_at > SqlNow(t)}

\* ORDER BY url_expires_at ASC: every order of the rows ids in which the
\* expiry never decreases; rows of equal expiry come in any order
RECURSIVE SortByExpiry(_, _)
SortByExpiry(mv, ids) ==
    IF ids = {} THEN {<< >>}
    ELSE LET firsts == {i \in ids : \A j \in ids :
                            mv[i].url_expires_at <= mv[j].url_expires_at}
         IN  UNION {{<<first>> \o rest :
                        rest \in SortByExpiry(mv, ids \ {first})} :
                    first \in firsts}

\* A variant of Expiring without the LIMIT
ExpiringNoLimit(mv, threshold, t) ==
    SortByExpiry(mv, Matching(mv, threshold, t))

\* the results the SELECT of checkAndRefresh may return: the rows expiring
\* soon, soonest first, at most batchLimit of them
Expiring(mv, threshold, t) ==
    {SubSeq(sorted, 1, IF Len(sorted) < batchLimit THEN Len(sorted)
                       ELSE batchLimit) :
        sorted \in SortByExpiry(mv, Matching(mv, threshold, t))}

(***************************************************************************)
(* Responses                                                               *)
(***************************************************************************)
\* statistics of GET /api/cache/stats; cache_hit_rate in hundredths of a
\* percent, written with decimals digits after the point
NoStatistics ==
    [total_movies |-> Nil, cached_movies |-> Nil, expired_cache |-> Nil,
     cache_hit_rate |-> [hundredths |-> Nil, decimals |-> Nil]]

\* a response: the HTTP status and the fields of the body; state is the
\* field status of the body of GET /api/health
NoResp ==
    [status |-> 0, success |-> FALSE, cached |-> FALSE, url |-> NoUrl,
     expiresAt |-> Nil, retryAfter |-> Nil, error |-> "", state |-> "",
     timestamp |-> Nil, statistics |-> NoStatistics]

Success(url, cached, expiresAt) ==
    [NoResp EXCEPT !.status = 200, !.success = TRUE, !.cached = cached,
                   !.url = url, !.expiresAt = expiresAt]

Failure(status, error) ==
    [NoResp EXCEPT !.status = status, !.error = error]

TooMany(error, retryAfter) ==
    [NoResp EXCEPT !.status = 429, !.retryAfter = retryAfter,
                   !.error = error]

\* GET /api/health answered at time t
Health(t) == [NoResp EXCEPT !.status = 200, !.state = "ok", !.timestamp = t]

\* the answer of the cors middleware to a preflight request
Preflight == [NoResp EXCEPT !.status = 204]

\* n > 0 without its factors of two
RECURSIVE OddPart(_)
OddPart(n) == IF n % 2 = 0 THEN OddPart(n \div 2) ELSE n

\* ((cached / total) * 100).toFixed(2) + '%', or '0%' of an empty table:
\* the strings the expression can give.  The quotient and the product are
\* doubles.  Where the exact percentage is not halfway between two
\* hundredths the nearer one is written.  Where it is halfway and
\* cached / total is a binary fraction, the double is that value and toFixed
\* takes the larger hundredth; where it is halfway and cached / total is no
\* binary fraction, the double may lie on either side of it
HitRate(total, cached) ==
    IF total > 0
    THEN LET below == (10000 * cached) \div total
             rest == (10000 * cached) % total
             exact == cached % OddPart(total) = 0
         IN  {[hundredths |-> h, decimals |-> 2] :
                h \in IF 2 * rest < total THEN {below}
                      ELSE IF 2 * rest > total \/ exact THEN {below + 1}
                      ELSE {below, below + 1}}
    ELSE {[hundredths |-> 0, decimals |-> 0]}

\* GET /api/cache/stats answered with the counts getCacheStats returned
Statistics(stats, rate) ==
    [NoResp EXCEPT
        !.status = 200, !.success = TRUE,
        !.statistics =
            [total_movies |-> stats.total, cached_movies |-> stats.cached,
             expired_cache |-> stats.expired, cache_hit_rate |-> rate]]

\* what getCacheStats has counted so far, and what its catch returns
NoStats == [total |-> Nil, cached |-> Nil, expired |-> Nil]

ZeroStats == [total |-> 0, cached |-> 0, expired |-> 0]

\* A variant of Resolve that hands an expired link without a video id to the
\* scraper
ResolveScrapeAnyway(videoUrl, t) ==
    IF videoUrl = NoUrl
    THEN [tag |-> "fail", resp |-> Failure(400, "No video URL found in database")]
    ELSE IF IsFacebookCDN(videoUrl) /\ extractExpiration(videoUrl, t) > t
    THEN [tag |-> "source",
          resp |-> Success(videoUrl, FALSE, extractExpiration(videoUrl, t))]
    ELSE [tag |-> "scrape", scrapingId |-> videoUrl]

\* the stored source identifier resolved to something to scrape, at time t
Resolve(videoUrl, t) ==
    IF videoUrl = NoUrl
    THEN [tag |-> "fail", resp |-> Failure(400, "No video URL found in database")]
    ELSE IF IsFacebookCDN(videoUrl)
    THEN IF extractExpiration(videoUrl, t) > t
         THEN [tag |-> "source",
               resp |-> Success(videoUrl, FALSE, extractExpiration(videoUrl, t))]
         ELSE IF VideoIdMatch(videoUrl) # << >>
         THEN [tag |-> "scrape", scrapingId |-> VideoIdMatch(videoUrl)]
         ELSE [tag |-> "fail",
               resp |->
                 Failure(400, "URL expired and cannot extract Facebook ID for re-scraping")]
    ELSE [tag |-> "scrape", scrapingId |-> videoUrl]

\* the links the scraper finds: in a request of the page or in video.src
ScrapedUrls == {DirectUrlOe, DirectUrlNoOe, PluginCdnUrl}

\* the instants at which a scraper called at calledAt that returns at t may
\* have found its link: extractExpiration is called at that instant
CaptureTimes(calledAt, t) ==
    {calledAt, t} \cup {c \in ServerTimes : calledAt <= c /\ c <= t}

\* what getFreshVideoUrl, called at calledAt, resolves to at time t, or that
\* it throws
ScrapeOutcomes(calledAt, t) ==
    {[success |-> FALSE, url |-> NoUrl, expiresAt |-> Nil, threw |-> FALSE],
     [success |-> FALSE, url |-> NoUrl, expiresAt |-> Nil, threw |-> TRUE]}
    \cup {[success |-> TRUE, url |-> u, expiresAt |-> extractExpiration(u, c),
           threw |-> FALSE] :
                u \in ScrapedUrls, c \in CaptureTimes(calledAt, t)}

NoFresh == [success |-> FALSE, url |-> NoUrl, expiresAt |-> Nil, threw |-> FALSE]

(***************************************************************************)
(* State                                                                   *)
(***************************************************************************)
VARIABLES
    now,             \* Date.now()
    requests,        \* rateLimiter.requests: ip -> {count, resetTime}
    lastScrapeTime,  \* fbRateLimiter.lastScrapeTime
    movies,          \* movies.cached_video_url, movies.url_expires_at
    episodes,        \* episodes.cached_video_url, episodes.url_expires_at
    slot,            \* the requests being handled
    bg,              \* backgroundRefresh and its running pass
    lastCheck,       \* history: the latest rateLimiter.check call
    winCalls,        \* history: check calls made in the current window of an ip
    probe,           \* history: allowed calls of one ip in one interval
    lastCan,         \* history: the latest canScrape call and the one before
    grantGap,        \* history: the instants of the latest two grants
    scrapes,         \* history: the latest two getFreshVideoUrl calls
    lastUpdate,      \* history: the latest updateVideoCache call
    observe,         \* the calls whose history this behaviour records
    extraction       \* history: the latest extractExpiration call

limiterVars == <<requests, lastCheck, winCalls, probe>>

throttleVars == <<lastScrapeTime, lastCan, grantGap>>

storeVars == <<movies, episodes, lastUpdate>>

vars ==
    <<now, requests, lastScrapeTime, movies, episodes, slot, bg, lastCheck,
      winCalls, probe, lastCan, grantGap, scrapes, lastUpdate, observe,
      extraction>>

Slots == {1}

ClientIp == "10.0.0.1"

\* twin: what the same call returned on a map that is never swept, before:
\* the record that map held for the ip; unswept: that map after the call
NoTwin ==
    [allowed |-> FALSE, remaining |-> Nil, retryAfter |-> Nil,
     before |-> NoRecord]

NoCheck ==
    [ip |-> "", at |-> Nil, allowed |-> FALSE, remaining |-> Nil,
     retryAfter |-> Nil, fresh |-> FALSE, nth |-> 0, before |-> NoRecord,
     after |-> NoRecord, twin |-> NoTwin,
     unswept |-> [ip \in IPs |-> NoRecord]]

NoProbe == [ip |-> "", start |-> Nil, count |-> 0, opensWindow |-> FALSE]

NoCan ==
    [at |-> Nil, before |-> Nil, allowed |-> FALSE, waitTime |-> Nil,
     after |-> Nil, prevAt |-> Nil, prevAllowed |-> FALSE]

NoGap == [prev |-> Nil, last |-> Nil]

NoScrapes == [prevAt |-> Nil, lastAt |-> Nil, granted |-> TRUE, by |-> ""]

NoExtraction == [url |-> NoUrl, at |-> Nil, expiresAt |-> Nil]

\* prev: the call before the latest one
NoPrevUpdate ==
    [called |-> FALSE, movieId |-> 0, videoUrl |-> NoUrl, expiresAt |-> Nil,
     ret |-> FALSE]

NoUpdate ==
    [called |-> FALSE, movieId |-> 0, videoUrl |-> NoUrl, expiresAt |-> Nil,
     ret |-> FALSE, wrote |-> FALSE, prev |-> NoPrevUpdate]

\* pc "sent": resp is the response of the request, with the cache evaluation
\* behind it in cachedVideo and evalAt, the outcome of its validateUrl probe
\* in probed and of its cache write in persisted ("none": there was none)
\* pc "scraping": the scraper was called at calledAt; expiryTime: the expiry
\* the episode endpoint computed for the link it is storing
\* stats: the counts of getCacheStats so far; held: the answer of the
\* statement the handler awaits, from the instant the database has run it
\* to the instant the handler is resumed with it
NoAnswer == [run |-> FALSE, ok |-> FALSE, rows |-> << >>, count |-> 0]

\* the database has run the statement: ok, it did not fail (for
\* updateVideoCache: the value the call returns); rows, the rows by id and
\* count, the count a SELECT read
Answered(ok, rows, count) ==
    [run |-> TRUE, ok |-> ok, rows |-> rows, count |-> count]

\* the rows of table tb that WHERE id = ? selects
RowsById(tb, id) == IF id \in DOMAIN tb THEN id :> tb[id] ELSE << >>

IdleSlot ==
    [pc |-> "idle", route |-> "", id |-> 0, cachedVideo |-> NoCachedVideo,
     evalAt |-> Nil, fresh |-> NoFresh, resp |-> NoResp, probed |-> "none",
     persisted |-> "none", calledAt |-> Nil, expiryTime |-> Nil,
     stats |-> NoStats, held |-> NoAnswer]

\* a call of checkAndRefresh: threshold is the parameter of its SELECT,
\* computed when the call began; pc "query": the SELECT is sent, "rows" and
\* "error": the database has run it and its answer is on the way; calledAt:
\* the instant the scraper was called; starting: start() is awaiting this
\* pass
NoPass == [pc |-> "none", batch |-> << >>, idx |-> 0, wakeAt |-> Nil,
           fresh |-> NoFresh, threshold |-> Nil, calledAt |-> Nil,
           starting |-> FALSE]

\* timers: the interval timers installed, each with the instant of its
\* installation and the times it has fired; startCalls and passes count the
\* calls of start() and the passes begun; leftOut (history): the rows the
\* latest SELECT matched beyond its LIMIT; others: the passes in flight next
\* to the one in hand; caught (history): the latest pass that ended did so in
\* the catch of checkAndRefresh; zone: the zone of the process; shutdown:
\* "ending" while the SIGINT handler awaits db.end(), "exited" after
\* process.exit
StoppedBg ==
    [isRunning |-> FALSE, pc |-> "stopped", batch |-> << >>, idx |-> 0,
     wakeAt |-> Nil, fresh |-> NoFresh, threshold |-> Nil, calledAt |-> Nil,
     starting |-> FALSE, timers |-> << >>, startCalls |-> 0, passes |-> 0,
     leftOut |-> {}, others |-> << >>, caught |-> FALSE, zone |-> NoChange,
     shutdown |-> "no"]

\* the process has not exited
Alive == bg.shutdown # "exited"

\* rows as the tables may hold them when the server starts
SoonExpiry == FormatExpiry(StartTime) + 3000

PastExpiry == FormatExpiry(StartTime) - 1000

CacheRow(url, expiry) == [cached_video_url |-> url, url_expires_at |-> expiry]

\* every row without cache
EmptyTables ==
    [m |-> [id \in MovieIds |-> NoCacheRow],
     e |-> [id \in EpisodeIds |-> NoCacheRow]]

\* rows with a direct link that expires soon, each at a second of its own;
\* the row whose source cannot be scraped holds a link cached long ago
FreshTables ==
    [m |-> [id \in MovieIds |->
                IF id = 3 THEN CacheRow(DirectUrlNoOe, PastExpiry)
                ELSE CacheRow(DirectUrlNoOe, SoonExpiry + (id - 1) * 1000)],
     e |-> [id \in EpisodeIds |-> CacheRow(DirectUrlNoOe, SoonExpiry)]]

\* rows with an embed link and rows with an expired link
LegacyTables ==
    [m |-> [id \in MovieIds |->
                IF id = 1 THEN CacheRow(PluginUrl, SoonExpiry)
                ELSE CacheRow(DirectUrlNoOe, PastExpiry)],
     e |-> [id \in EpisodeIds |-> CacheRow(PluginUrl, SoonExpiry)]]

InitialTables == {EmptyTables, FreshTables, LegacyTables}

Start ==
    /\ now = StartTime
    /\ requests = [ip \in IPs |-> NoRecord]
    /\ lastScrapeTime = 0
    /\ \E tables \in InitialTables :
            movies = tables.m /\ episodes = tables.e
    /\ slot = [s \in Slots |-> IdleSlot]
    /\ bg = StoppedBg
    /\ lastCheck = NoCheck
    /\ winCalls = [ip \in IPs |-> 0]
    /\ probe = NoProbe
    /\ lastCan = NoCan
    /\ grantGap = NoGap
    /\ scrapes = NoScrapes
    /\ lastUpdate = NoUpdate
    /\ extraction = NoExtraction

Init == Start /\ observe = {}

\* the same server with the history of its canScrape calls recorded, of the
\* grants among them, or of its getFreshVideoUrl calls: none of these calls
\* reads the tables, which hold rows that give every caller a reason to call
\* (for the scraper: a movie with an embed link that the scheduler finds
\* expiring, and rows with an expired link)
InitThrottle ==
    /\ Start /\ observe = {"canScrape"}
    /\ movies = FreshTables.m /\ episodes = FreshTables.e

InitGrants ==
    /\ Start /\ observe = {"grants"}
    /\ movies = FreshTables.m /\ episodes = FreshTables.e

InitScrapes ==
    /\ Start /\ observe = {"getFreshVideoUrl"}
    /\ movies = LegacyTables.m /\ episodes = LegacyTables.e

\* the writers of the cache columns with their updateVideoCache calls recorded

InitCacheService == Start /\ observe = {"updateVideoCache"}

\* a limiter without a server behind it
InitLimiter ==
    /\ Init
    /\ movies = [id \in MovieIds |-> NoCacheRow]
    /\ episodes = [id \in EpisodeIds |-> NoCacheRow]

(***************************************************************************)
(* rateLimiter.check(ip) called now; startProbe: begin counting the        *)
(* allowed calls of ip made from now to now + windowMs                     *)
(***************************************************************************)
LimiterStep(ip, startProbe) ==
    LET r == check(requests, ip, now)
        u == check(lastCheck.unswept, ip, now)
    IN
    /\ r.fresh \/ winCalls[ip] < maxRequests + MaxDenied
    /\ requests' = r.requests
    /\ lastCheck' =
            [ip |-> ip, at |-> now, allowed |-> r.allowed,
             remaining |-> r.remaining, retryAfter |-> r.retryAfter,
             fresh |-> r.fresh,
             nth |-> IF r.fresh THEN 1 ELSE winCalls[ip] + 1,
             before |-> requests[ip], after |-> r.requests[ip],
             twin |->
                IF "unswept" \notin observe THEN NoTwin
                ELSE [allowed |-> u.allowed, remaining |-> u.remaining,
                      retryAfter |-> u.retryAfter,
                      before |-> lastCheck.unswept[ip]],
             unswept |->
                IF "unswept" \notin observe THEN lastCheck.unswept
                ELSE u.requests]
    /\ winCalls' = [winCalls EXCEPT ![ip] = IF r.fresh THEN 1 ELSE @ + 1]
    /\ probe' =
            IF ~r.allowed THEN probe
            ELSE IF probe.ip = "" /\ startProbe
            THEN [ip |-> ip, start |-> now, count |-> 1,
                  opensWindow |-> r.fresh]
            ELSE IF probe.ip = ip /\ now <= probe.start + windowMs
            THEN [probe EXCEPT !.count = @ + 1]
            ELSE probe

serverVars ==
    <<lastScrapeTime, movies, episodes, slot, bg, lastCan, grantGap, scrapes,
      lastUpdate>>

CheckCall(ip) ==
    /\ Alive
    /\ LimiterStep(ip, FALSE)
    /\ UNCHANGED <<now, observe, extraction, serverVars>>

\* the same call, observed by the probe
ProbedCheckCall(ip) ==
    /\ Alive
    /\ \E startProbe \in BOOLEAN : LimiterStep(ip, startProbe)
    /\ UNCHANGED <<now, observe, extraction, serverVars>>

\* the setInterval callback of startCleanup
Cleanup ==
    /\ Alive
    /\ requests' = cleanup(requests, now)
    /\ winCalls' = [ip \in IPs |->
                        IF cleanup(requests, now)[ip] = NoRecord THEN 0
                        ELSE winCalls[ip]]
    /\ UNCHANGED <<now, observe, extraction, lastCheck, probe, serverVars>>

TickLimiter ==
    /\ Alive
    /\ \E t \in LimiterTimes : t > now /\ now' = t
    /\ UNCHANGED <<observe, extraction, limiterVars, serverVars>>

NextLimiter ==
    \/ \E ip \in IPs : CheckCall(ip)
    \/ Cleanup
    \/ TickLimiter

SpecLimiter == InitLimiter /\ [][NextLimiter]_vars

\* the same limiter next to one that is never swept, given the same calls
InitSweep ==
    /\ Start /\ observe = {"unswept"}
    /\ movies = [id \in MovieIds |-> NoCacheRow]
    /\ episodes = [id \in EpisodeIds |-> NoCacheRow]

SpecSweep == InitSweep /\ [][NextLimiter]_vars

\* one client address, every interval of its allowed calls observed
NextBurst ==
    \/ ProbedCheckCall(ClientIp)
    \/ Cleanup
    \/ TickLimiter

SpecBurst == InitLimiter /\ [][NextBurst]_vars

(***************************************************************************)
(* Steps shared by the handlers                                            *)
(***************************************************************************)
\* fbRateLimiter.canScrape() called now
ThrottleCall ==
    LET fbLimit == canScrape(lastScrapeTime, now) IN
    /\ lastScrapeTime' = fbLimit.lastScrapeTime
    /\ lastCan' =
            IF "canScrape" \notin observe THEN lastCan
            ELSE [at |-> now, before |-> lastScrapeTime,
                  allowed |-> fbLimit.allowed, waitTime |-> fbLimit.waitTime,
                  after |-> fbLimit.lastScrapeTime,
                  prevAt |-> lastCan.at, prevAllowed |-> lastCan.allowed]
    /\ grantGap' =
            IF "grants" \in observe /\ fbLimit.allowed
            THEN [prev |-> grantGap.last, last |-> now]
            ELSE grantGap

\* getFreshVideoUrl called now; granted: the caller's own canScrape call for
\* this scrape returned allowed
ScrapeStart(by, granted) ==
    scrapes' =
        IF "getFreshVideoUrl" \notin observe THEN scrapes
        ELSE [prevAt |-> scrapes.lastAt, lastAt |-> now,
              granted |-> granted, by |-> by]

\* updateVideoCache(movieId, videoUrl, expiresAt) called now
CacheUpdate(movieId, videoUrl, expiresAt, dbOk) ==
    LET u == updateVideoCache(movies, movieId, videoUrl, expiresAt, dbOk) IN
    /\ movies' = u.movies
    /\ lastUpdate' =
            IF "updateVideoCache" \notin observe THEN lastUpdate
            ELSE [called |-> TRUE, movieId |-> movieId, videoUrl |-> videoUrl,
                  expiresAt |-> expiresAt, ret |-> u.ret,
                  wrote |-> u.movies # movies,
                  prev |-> IF "previous" \notin observe THEN NoPrevUpdate
                           ELSE [called |-> lastUpdate.called,
                                 movieId |-> lastUpdate.movieId,
                                 videoUrl |-> lastUpdate.videoUrl,
                                 expiresAt |-> lastUpdate.expiresAt,
                                 ret |-> lastUpdate.ret]]

Persisted(ok) == IF ok THEN "ok" ELSE "failed"

\* what the scraper may return now to the handler or the pass p
Returns(p) ==
    IF p.pc = "scraping" THEN ScrapeOutcomes(p.calledAt, now) ELSE {}

\* res.json(...): the handler of slot s ends
Respond(s, cur, payload) ==
    slot' = [slot EXCEPT ![s] =
                [cur EXCEPT !.pc = "sent", !.resp = payload, !.fresh = NoFresh,
                            !.calledAt = Nil, !.expiryTime = Nil,
                            !.stats = NoStats, !.held = NoAnswer]]

\* the handler of slot s goes on to its next await
Await(s, cur) == slot' = [slot EXCEPT ![s] = [cur EXCEPT !.held = NoAnswer]]

\* the database has run the statement the handler of slot s awaits
Hold(s, answer) == slot' = [slot EXCEPT ![s].held = answer]

\* the canScrape check of a client handler and the call of the scraper
ThrottledScrape(s, cur, by) ==
    LET fbLimit == canScrape(lastScrapeTime, now) IN
    /\ ThrottleCall
    /\ IF fbLimit.allowed
       THEN /\ Await(s, [cur EXCEPT !.pc = "scraping", !.calledAt = now,
                                    !.cachedVideo = NoCachedVideo,
                                    !.evalAt = Nil, !.probed = "none"])
            /\ ScrapeStart(by, TRUE)
       ELSE /\ Respond(s, cur, TooMany("Facebook scraping rate limit",
                                       fbLimit.waitTime))
            /\ UNCHANGED scrapes

(***************************************************************************)
(* The rate limiting middleware and the synchronous head of a handler      *)
(***************************************************************************)
\* routes that take the id of a row
VideoRoutes == {"movie", "refresh", "episode"}

\* "health": GET /api/health; "stats": GET /api/cache/stats; "other": a
\* path and method no route matches; "preflight": an OPTIONS request, which
\* the cors middleware answers; "malformed": a request whose JSON body
\* express.json() cannot parse, which goes to the error handler
Routes == VideoRoutes \cup {"health", "stats", "other", "preflight", "malformed"}

\* the requests that a middleware registered before the rate limiter ends
BeforeLimiter == {"preflight", "malformed"}

\* req.params.id when the route has none
NoId == 0

\* the callback of app.listen has run: the server takes requests
Listening == Alive /\ bg.startCalls > 0

RouteIds(route) ==
    IF route = "episode" THEN EpisodeIds \cup {MissingId, NotANumber}
    ELSE IF route \in VideoRoutes THEN RequestIds
    ELSE {NoId}

\* the middlewares registered before the rate limiter end the request
Unlimited(s, cur) ==
    /\ Respond(s, cur, IF cur.route = "preflight" THEN Preflight
                       ELSE Failure(500, "Internal server error"))
    /\ UNCHANGED <<requests, winCalls>>

\* the synchronous head of the route handler, after next()
RouteHead(s, cur) ==
    IF cur.route = "health" THEN Respond(s, cur, Health(now))
    ELSE IF cur.route = "other"
    THEN Respond(s, cur, Failure(404, "Endpoint not found"))
    ELSE IF cur.route = "stats" THEN Await(s, [cur EXCEPT !.pc = "total"])
    ELSE IF IsNaN(cur.id)
    THEN Respond(s, cur,
                 Failure(400, IF cur.route = "episode"
                              THEN "Invalid episode ID"
                              ELSE "Invalid video ID"))
    ELSE Await(s, [cur EXCEPT !.pc = "read"])

\* A variant of the middleware that lets a denied request through
StartRequestNoGate(s, route, id) ==
    /\ Listening
    /\ slot[s].pc = "idle"
    /\ LET result == check(requests, ClientIp, now)
           cur == [IdleSlot EXCEPT !.route = route, !.id = id]
       IN  IF route \in BeforeLimiter THEN Unlimited(s, cur)
           ELSE /\ winCalls[ClientIp] < MaxClientRequests
                /\ requests' = result.requests
                /\ winCalls' = [winCalls EXCEPT ![ClientIp] =
                                    IF result.fresh THEN 1 ELSE @ + 1]
                /\ RouteHead(s, cur)
    /\ UNCHANGED <<now, observe, extraction, lastCheck, probe, throttleVars, storeVars, bg,
                   scrapes>>

StartRequest(s, route, id) ==
    /\ Listening
    /\ slot[s].pc = "idle"
    /\ LET result == check(requests, ClientIp, now)
           cur == [IdleSlot EXCEPT !.route = route, !.id = id]
       IN  IF route \in BeforeLimiter THEN Unlimited(s, cur)
           ELSE /\ winCalls[ClientIp] < MaxClientRequests
                /\ requests' = result.requests
                /\ winCalls' = [winCalls EXCEPT ![ClientIp] =
                                    IF result.fresh THEN 1 ELSE @ + 1]
                /\ IF ~result.allowed
                   THEN Respond(s, cur, TooMany("Too many requests",
                                                result.retryAfter))
                   ELSE RouteHead(s, cur)
    /\ UNCHANGED <<now, observe, extraction, lastCheck, probe, throttleVars, storeVars, bg,
                   scrapes>>

(***************************************************************************)
(* GET /api/cache/stats                                                    *)
(***************************************************************************)
\* the counts of the three SELECTs of getCacheStats
CountRows(mv) == Cardinality(DOMAIN mv)

CountCached(mv) ==
    Cardinality({i \in DOMAIN mv : mv[i].cached_video_url # NoUrl})

CountExpired(mv, t) ==
    Cardinality({i \in DOMAIN mv :
                    /\ mv[i].cached_video_url # NoUrl
                    /\ mv[i].url_expires_at # Nil
                    /\ mv[i].url_expires_at < SqlNow(t)})

\* res.json of GET /api/cache/stats with the counts getCacheStats returned
StatsAnswer(s, stats) ==
    \E rate \in HitRate(stats.total, stats.cached) :
        Respond(s, slot[s], Statistics(stats, rate))

\* the database runs one SELECT of getCacheStats, or fails to: the first
\* counts the rows, the second the rows with a cached link, the third those
\* of them that have expired at the NOW() of this step
StatsSelect(s, dbOk) ==
    /\ Alive
    /\ slot[s].pc \in {"total", "cached", "expired"} /\ ~slot[s].held.run
    /\ Hold(s, Answered(dbOk, << >>,
                        IF ~dbOk THEN 0
                        ELSE IF slot[s].pc = "total" THEN CountRows(movies)
                        ELSE IF slot[s].pc = "cached" THEN CountCached(movies)
                        ELSE CountExpired(movies, now)))
    /\ UNCHANGED <<now, observe, extraction, limiterVars, throttleVars, storeVars, bg,
                   scrapes>>

\* one SELECT of getCacheStats returns or throws; when one throws,
\* getCacheStats returns zeros, and the handler answers with what
\* getCacheStats returned
StatsCount(s) ==
    /\ Alive
    /\ slot[s].pc \in {"total", "cached", "expired"} /\ slot[s].held.run
    /\ LET stats == slot[s].stats
           count == slot[s].held.count
       IN  IF ~slot[s].held.ok THEN StatsAnswer(s, ZeroStats)
           ELSE IF slot[s].pc = "total"
           THEN Await(s, [slot[s] EXCEPT
                            !.pc = "cached",
                            !.stats = [stats EXCEPT !.total = count]])
           ELSE IF slot[s].pc = "cached"
           THEN Await(s, [slot[s] EXCEPT
                            !.pc = "expired",
                            !.stats = [stats EXCEPT !.cached = count]])
           ELSE StatsAnswer(s, [stats EXCEPT !.expired = count])
    /\ UNCHANGED <<now, observe, extraction, limiterVars, throttleVars, storeVars, bg,
                   scrapes>>

(***************************************************************************)
(* GET /api/video/:id                                                      *)
(***************************************************************************)
\* the SELECT of the movie row returns or throws; video_url and the ids of
\* the rows never change, so its answer is the same whenever the database
\* runs it
MovieRow(s, dbOk) ==
    /\ Alive
    /\ slot[s].pc = "read" /\ slot[s].route = "movie"
    /\ IF ~dbOk THEN Respond(s, slot[s], Failure(500, "Internal server error"))
       ELSE IF slot[s].id \notin MovieIds
       THEN Respond(s, slot[s], Failure(404, "Video not found"))
       ELSE Await(s, [slot[s] EXCEPT !.pc = "getCached"])
    /\ UNCHANGED <<now, observe, extraction, limiterVars, throttleVars, storeVars, bg,
                   scrapes>>

\* from "CACHE MISS" to the call of the scraper
MovieReacquire(s, cur) ==
    LET source == Resolve(MovieVideoUrl(cur.id), now) IN
    IF source.tag # "scrape"
    THEN /\ Respond(s, cur, source.resp)
         /\ UNCHANGED <<throttleVars, scrapes>>
    ELSE ThrottledScrape(s, cur, "movie")

\* the database runs the SELECT of getCachedVideo, or fails to: the row is
\* the one the table holds at this step
MovieSelect(s, dbOk) ==
    /\ Alive
    /\ slot[s].pc = "getCached" /\ ~slot[s].held.run
    /\ Hold(s, Answered(dbOk, IF dbOk THEN RowsById(movies, slot[s].id)
                              ELSE << >>, 0))
    /\ UNCHANGED <<now, observe, extraction, limiterVars, throttleVars, storeVars, bg,
                   scrapes>>


\* getCachedVideo is resumed with the rows of its SELECT, compares their
\* expiry with the clock of this step and returns
MovieCached(s) ==
    /\ Alive
    /\ slot[s].pc = "getCached" /\ slot[s].held.run
    /\ LET cachedVideo == getCachedVideo(slot[s].held.rows, slot[s].id, now,
                                         slot[s].held.ok)
           isDirectCachedUrl ==
                cachedVideo.url # NoUrl /\ IsDirectUrl(cachedVideo.url)
           cur == [slot[s] EXCEPT !.cachedVideo = cachedVideo, !.evalAt = now]
       IN  IF cachedVideo.valid /\ isDirectCachedUrl
           THEN /\ Await(s, [cur EXCEPT !.pc = "probe"])
                /\ UNCHANGED <<throttleVars, scrapes>>
           ELSE MovieReacquire(s, cur)
    /\ UNCHANGED <<now, observe, extraction, limiterVars, storeVars, bg>>

\* A variant of MovieProbe whose cache hit consults the throttle
MovieProbeThrottled(s, urlWorks) ==
    /\ Alive
    /\ slot[s].pc = "probe"
    /\ IF urlWorks
       THEN /\ Respond(s, [slot[s] EXCEPT !.probed = "ok"],
                       Success(slot[s].cachedVideo.url, TRUE,
                               slot[s].cachedVideo.expiresAt))
            /\ ThrottleCall
            /\ UNCHANGED scrapes
       ELSE MovieReacquire(s, [slot[s] EXCEPT !.probed = "failed"])
    /\ UNCHANGED <<now, observe, extraction, limiterVars, storeVars, bg>>

\* validateUrl returns
MovieProbe(s, urlWorks) ==
    /\ Alive
    /\ slot[s].pc = "probe"
    /\ IF urlWorks
       THEN /\ Respond(s, [slot[s] EXCEPT !.probed = "ok"],
                       Success(slot[s].cachedVideo.url, TRUE,
                               slot[s].cachedVideo.expiresAt))
            /\ UNCHANGED <<throttleVars, scrapes>>
       ELSE MovieReacquire(s, [slot[s] EXCEPT !.probed = "failed"])
    /\ UNCHANGED <<now, observe, extraction, limiterVars, storeVars, bg>>

\* getFreshVideoUrl returns
MovieScrapeDone(s, freshVideoData) ==
    /\ Alive
    /\ slot[s].pc = "scraping" /\ slot[s].route = "movie"
    /\ IF freshVideoData.threw
       THEN Respond(s, slot[s], Failure(500, "Scraping failed"))
       ELSE IF ~(freshVideoData.success /\ freshVideoData.url # NoUrl)
       THEN Respond(s, slot[s], Failure(500, "Failed to retrieve video URL from Facebook"))
       ELSE IF ~IsDirectUrl(freshVideoData.url)
       THEN Respond(s, slot[s], Failure(500, "Could not extract direct video URL"))
       ELSE Await(s, [slot[s] EXCEPT !.pc = "writing", !.calledAt = Nil,
                                     !.fresh = freshVideoData])
    /\ UNCHANGED <<now, observe, extraction, limiterVars, throttleVars, storeVars, bg,
                   scrapes>>

\* the database runs the UPDATE of updateVideoCache, or fails to
MovieUpdate(s, dbOk) ==
    /\ Alive
    /\ slot[s].pc = "writing" /\ slot[s].route = "movie" /\ ~slot[s].held.run
    /\ CacheUpdate(slot[s].id, slot[s].fresh.url, slot[s].fresh.expiresAt, dbOk)
    /\ Hold(s, Answered(updateVideoCache(movies, slot[s].id, slot[s].fresh.url,
                                         slot[s].fresh.expiresAt, dbOk).ret,
                        << >>, 0))
    /\ UNCHANGED <<now, observe, extraction, limiterVars, throttleVars, episodes, bg, scrapes>>

\* updateVideoCache returns
MovieWrite(s) ==
    /\ Alive
    /\ slot[s].pc = "writing" /\ slot[s].route = "movie" /\ slot[s].held.run
    /\ Respond(s, [slot[s] EXCEPT !.persisted = Persisted(slot[s].held.ok)],
               Success(slot[s].fresh.url, FALSE, slot[s].fresh.expiresAt))
    /\ UNCHANGED <<now, observe, extraction, limiterVars, throttleVars, storeVars, bg,
                   scrapes>>

(***************************************************************************)
(* POST /api/refresh/:id                                                   *)
(***************************************************************************)
\* the SELECT of the movie row returns or throws (its answer is the same
\* whenever the database runs it): up to the call of the scraper
RefreshRow(s, dbOk) ==
    /\ Alive
    /\ slot[s].pc = "read" /\ slot[s].route = "refresh"
    /\ LET videoUrl == MovieVideoUrl(slot[s].id)
           isDirectUrl ==
                StartsWith(videoUrl, "http://") \/ StartsWith(videoUrl, "https://")
           isFacebookUrl ==
                Includes(videoUrl, "facebook.com") \/ Includes(videoUrl, "fb.watch")
       IN  IF ~dbOk
           THEN /\ Respond(s, slot[s], Failure(500, "Internal server error"))
                /\ UNCHANGED scrapes
           ELSE IF slot[s].id \notin MovieIds
           THEN /\ Respond(s, slot[s], Failure(404, "Video not found"))
                /\ UNCHANGED scrapes
           ELSE IF videoUrl = NoUrl
           THEN /\ Respond(s, slot[s],
                           Failure(400, "No video URL found in database"))
                /\ UNCHANGED scrapes
           ELSE IF isDirectUrl /\ ~isFacebookUrl
           THEN /\ Respond(s, slot[s], Success(videoUrl, FALSE, Nil))
                /\ UNCHANGED scrapes
           ELSE /\ Await(s, [slot[s] EXCEPT !.pc = "scraping",
                                             !.calledAt = now])
                /\ ScrapeStart("refresh", FALSE)
    /\ UNCHANGED <<now, observe, extraction, limiterVars, throttleVars, storeVars, bg>>

RefreshScrapeDone(s, freshVideoData) ==
    /\ Alive
    /\ slot[s].pc = "scraping" /\ slot[s].route = "refresh"
    /\ IF freshVideoData.threw
       THEN Respond(s, slot[s], Failure(500, "Internal server error"))
       ELSE IF freshVideoData.url = NoUrl
       THEN Respond(s, slot[s], Failure(500, "Failed to scrape video URL"))
       ELSE Await(s, [slot[s] EXCEPT !.pc = "writing", !.calledAt = Nil,
                                     !.fresh = freshVideoData])
    /\ UNCHANGED <<now, observe, extraction, limiterVars, throttleVars, storeVars, bg,
                   scrapes>>

\* the database runs the UPDATE of updateVideoCache, or fails to
RefreshUpdate(s, dbOk) ==
    /\ Alive
    /\ slot[s].pc = "writing" /\ slot[s].route = "refresh" /\ ~slot[s].held.run
    /\ CacheUpdate(slot[s].id, slot[s].fresh.url, slot[s].fresh.expiresAt, dbOk)
    /\ Hold(s, Answered(updateVideoCache(movies, slot[s].id, slot[s].fresh.url,
                                         slot[s].fresh.expiresAt, dbOk).ret,
                        << >>, 0))
    /\ UNCHANGED <<now, observe, extraction, limiterVars, throttleVars, episodes, bg, scrapes>>

\* updateVideoCache returns
RefreshWrite(s) ==
    /\ Alive
    /\ slot[s].pc = "writing" /\ slot[s].route = "refresh" /\ slot[s].held.run
    /\ Respond(s, [slot[s] EXCEPT !.persisted = Persisted(slot[s].held.ok)],
               Success(slot[s].fresh.url, FALSE, slot[s].fresh.expiresAt))
    /\ UNCHANGED <<now, observe, extraction, limiterVars, throttleVars, storeVars, bg,
                   scrapes>>

(***************************************************************************)
(* GET /api/video/episode/:id                                              *)
(***************************************************************************)
\* the database runs the SELECT of the episode row, or fails to: the row is
\* the one the table holds at this step
EpisodeSelect(s, dbOk) ==
    /\ Alive
    /\ slot[s].pc = "read" /\ slot[s].route = "episode" /\ ~slot[s].held.run
    /\ Hold(s, Answered(dbOk, IF dbOk THEN RowsById(episodes, slot[s].id)
                              ELSE << >>, 0))
    /\ UNCHANGED <<now, observe, extraction, limiterVars, throttleVars, storeVars, bg,
                   scrapes>>

\* the SELECT of the episode row returns: up to the call of the scraper
EpisodeRow(s) ==
    /\ Alive
    /\ slot[s].pc = "read" /\ slot[s].route = "episode" /\ slot[s].held.run
    /\ IF ~slot[s].held.ok \/ slot[s].id \notin DOMAIN slot[s].held.rows
       THEN /\ Respond(s, slot[s],
                       IF ~slot[s].held.ok
                       THEN Failure(500, "Internal server error")
                       ELSE Failure(404, "Episode not found"))
            /\ UNCHANGED <<throttleVars, scrapes>>
       ELSE LET episode == slot[s].held.rows[slot[s].id]
                source == Resolve(EpisodeVideoUrl(slot[s].id), now)
                cachedUrl == episode.cached_video_url
                expiresAt == episode.url_expires_at
                hasCache == cachedUrl # NoUrl /\ expiresAt # Nil
                cur == [slot[s] EXCEPT
                            !.cachedVideo =
                                IF hasCache
                                THEN [valid |-> now < expiresAt,
                                      url |-> cachedUrl,
                                      expiresAt |-> expiresAt]
                                ELSE NoCachedVideo,
                            !.evalAt = now]
            IN  IF EpisodeVideoUrl(slot[s].id) = NoUrl
                THEN /\ Respond(s, slot[s],
                                Failure(400, "No video URL found for this episode"))
                     /\ UNCHANGED <<throttleVars, scrapes>>
                ELSE IF source.tag # "scrape"
                THEN /\ Respond(s, slot[s], source.resp)
                     /\ UNCHANGED <<throttleVars, scrapes>>
                ELSE IF hasCache /\ now < expiresAt
                THEN /\ Respond(s, cur, Success(cachedUrl, TRUE, expiresAt))
                     /\ UNCHANGED <<throttleVars, scrapes>>
                ELSE ThrottledScrape(s, cur, "episode")
    /\ UNCHANGED <<now, observe, extraction, limiterVars, storeVars, bg>>

EpisodeScrapeDone(s, freshVideoData) ==
    /\ Alive
    /\ slot[s].pc = "scraping" /\ slot[s].route = "episode"
    /\ IF freshVideoData.threw
       THEN Respond(s, slot[s], Failure(500, "Scraping failed"))
       ELSE IF ~(freshVideoData.success /\ freshVideoData.url # NoUrl)
       THEN Respond(s, slot[s], Failure(500, "Failed to retrieve episode video URL from Facebook"))
       ELSE IF ~IsDirectUrl(freshVideoData.url)
       THEN Respond(s, slot[s], Failure(500, "Could not extract direct video URL"))
       ELSE Await(s, [slot[s] EXCEPT
                        !.pc = "writing", !.calledAt = Nil,
                        !.fresh = freshVideoData,
                        !.expiryTime = now + episodeCacheMs])
    /\ UNCHANGED <<now, observe, extraction, limiterVars, throttleVars, storeVars, bg,
                   scrapes>>

\* the database runs the UPDATE of the episode row, or fails to
EpisodeUpdate(s, dbOk) ==
    /\ Alive
    /\ slot[s].pc = "writing" /\ slot[s].route = "episode" /\ ~slot[s].held.run
    /\ IF dbOk
       THEN \E stored \in DatetimeColumn(slot[s].expiryTime) :
                episodes' = [episodes EXCEPT ![slot[s].id] =
                                CacheRow(slot[s].fresh.url, stored)]
       ELSE episodes' = episodes
    /\ Hold(s, Answered(dbOk, << >>, 0))
    /\ UNCHANGED <<now, observe, extraction, limiterVars, throttleVars, movies, lastUpdate, bg, scrapes>>

\* the UPDATE of the episode row returns or throws
EpisodeWrite(s) ==
    /\ Alive
    /\ slot[s].pc = "writing" /\ slot[s].route = "episode" /\ slot[s].held.run
    /\ Respond(s, [slot[s] EXCEPT !.persisted = Persisted(slot[s].held.ok)],
               IF slot[s].held.ok
               THEN Success(slot[s].fresh.url, FALSE, slot[s].expiryTime)
               ELSE Failure(500, "Scraping failed"))
    /\ UNCHANGED <<now, observe, extraction, limiterVars, throttleVars, storeVars, bg,
                   scrapes>>

(***************************************************************************)
(* backgroundRefresh                                                       *)
(***************************************************************************)
\* the pass in hand as a record of its own
PassOf(b) ==
    [pc |-> b.pc, batch |-> b.batch, idx |-> b.idx, wakeAt |-> b.wakeAt,
     fresh |-> b.fresh, threshold |-> b.threshold, calledAt |-> b.calledAt,
     starting |-> b.starting]

\* the scheduler with the pass p in hand
WithPass(b, p) ==
    [b EXCEPT !.pc = p.pc, !.batch = p.batch, !.idx = p.idx,
              !.wakeAt = p.wakeAt, !.fresh = p.fresh,
              !.threshold = p.threshold, !.calledAt = p.calledAt,
              !.starting = p.starting]

\* checkAndRefresh() called at time t, up to its first await: the threshold
\* is computed and the SELECT sent; the passes in flight stay in flight
BeginPass(b, t, starting) ==
    [WithPass(b, [NoPass EXCEPT !.pc = "query",
                                !.threshold = expiryThreshold(t, b.zone),
                                !.starting = starting])
        EXCEPT !.passes = @ + 1,
               !.others = IF b.pc \in {"idle", "stopped"} THEN @
                          ELSE Append(@, PassOf(b))]

\* checkAndRefresh returns; the start() that awaited it installs its timer
PassEnd(b) ==
    LET done == [WithPass(b, [NoPass EXCEPT !.pc = "idle"])
                    EXCEPT !.caught = FALSE] IN
    IF b.starting
    THEN [done EXCEPT !.timers =
                        Append(@, [installedAt |-> now, fires |-> 0])]
    ELSE done

\* the head of the loop body for entry b.idx, or the end of the pass
BgNext(b) ==
    IF b.idx > Len(b.batch)
    THEN /\ bg' = PassEnd(b)
         /\ UNCHANGED <<throttleVars, scrapes>>
    ELSE LET fbLimit == canScrape(lastScrapeTime, now) IN
         /\ ThrottleCall
         /\ IF fbLimit.allowed
            THEN /\ bg' = [b EXCEPT !.pc = "scraping", !.calledAt = now]
                 /\ ScrapeStart("background", TRUE)
            ELSE /\ bg' = [b EXCEPT !.pc = "sleep", !.calledAt = Nil,
                                    !.wakeAt = now + fbLimit.waitTime * 1000]
                 /\ UNCHANGED scrapes

\* A variant of start without the isRunning guard
startNoGuard(b, t) ==
    [BeginPass(b, t, TRUE) EXCEPT !.isRunning = TRUE]

\* backgroundRefresh.start() called at time t, up to its first await: the
\* first pass begins
start(b, t) ==
    IF b.isRunning THEN b
    ELSE [BeginPass(b, t, TRUE) EXCEPT !.isRunning = TRUE]

\* backgroundRefresh.start() from the listen callback
BgStart ==
    /\ Alive
    /\ bg.startCalls = 0
    /\ bg' = [start(bg, now) EXCEPT !.startCalls = @ + 1]
    /\ UNCHANGED <<now, observe, extraction, limiterVars, throttleVars, storeVars, slot, scrapes>>

\* the database runs the SELECT of checkAndRefresh, or fails to: NOW() is
\* the instant of this step, the threshold the one the pass computed
BgSelect(dbOk) ==
    /\ Alive
    /\ bg.pc = "query"
    /\ IF dbOk
       THEN \E batch \in Expiring(movies, bg.threshold, now) :
                bg' = [bg EXCEPT
                        !.pc = "rows", !.batch = batch, !.threshold = Nil,
                        !.leftOut =
                            IF "leftOut" \notin observe THEN {}
                            ELSE Matching(movies, bg.threshold, now)
                                    \ {batch[i] : i \in DOMAIN batch}]
       ELSE bg' = [bg EXCEPT !.pc = "error", !.threshold = Nil]
    /\ UNCHANGED <<now, observe, extraction, limiterVars, throttleVars, storeVars, slot, scrapes>>

\* A variant of checkAndRefresh without its try/catch: the error of the
\* SELECT rejects the call, and the start() that awaited it goes no further
BgQueryUncaught ==
    /\ Alive
    /\ bg.pc \in {"rows", "error"}
    /\ IF bg.pc = "rows"
       THEN BgNext([bg EXCEPT !.idx = 1])
       ELSE /\ bg' = [WithPass(bg, [NoPass EXCEPT !.pc = "idle"])
                        EXCEPT !.caught = "caught" \in observe]
            /\ UNCHANGED <<throttleVars, scrapes>>
    /\ UNCHANGED <<now, observe, extraction, limiterVars, storeVars, slot>>

\* the SELECT of checkAndRefresh returns or throws
BgQuery ==
    /\ Alive
    /\ bg.pc \in {"rows", "error"}
    /\ IF bg.pc = "rows"
       THEN BgNext([bg EXCEPT !.idx = 1])
       ELSE /\ bg' = [PassEnd(bg) EXCEPT !.caught = "caught" \in observe]
            /\ UNCHANGED <<throttleVars, scrapes>>
    /\ UNCHANGED <<now, observe, extraction, limiterVars, storeVars, slot>>

\* the wait after a denial is over: the scraper is called
BgWake ==
    /\ Alive
    /\ bg.pc = "sleep" /\ now >= bg.wakeAt
    /\ bg' = [bg EXCEPT !.pc = "scraping", !.wakeAt = Nil, !.calledAt = now]
    /\ ScrapeStart("background", FALSE)
    /\ UNCHANGED <<now, observe, extraction, limiterVars, throttleVars, storeVars, slot>>

\* A variant of the loop body that stores whatever link the scraper returns
BgScrapeDoneAnyUrl(freshVideoData) ==
    /\ Alive
    /\ bg.pc = "scraping"
    /\ IF freshVideoData.threw
       THEN BgNext([bg EXCEPT !.idx = @ + 1, !.calledAt = Nil])
       ELSE /\ bg' =
                IF freshVideoData.success /\ freshVideoData.url # NoUrl
                THEN [bg EXCEPT !.pc = "writing", !.calledAt = Nil,
                                !.fresh = freshVideoData]
                ELSE [bg EXCEPT !.pc = "delay", !.calledAt = Nil,
                                !.wakeAt = now + interItemDelayMs]
            /\ UNCHANGED <<throttleVars, scrapes>>
    /\ UNCHANGED <<now, observe, extraction, limiterVars, storeVars, slot>>

\* A variant of the loop body without its try/catch: an exception of the
\* scraper ends the pass
BgScrapeDoneAbort(freshVideoData) ==
    /\ Alive
    /\ bg.pc = "scraping"
    /\ bg' =
        IF freshVideoData.threw THEN PassEnd(bg)
        ELSE IF /\ freshVideoData.success /\ freshVideoData.url # NoUrl
                /\ IsDirectUrl(freshVideoData.url)
        THEN [bg EXCEPT !.pc = "writing", !.calledAt = Nil,
                        !.fresh = freshVideoData]
        ELSE [bg EXCEPT !.pc = "delay", !.calledAt = Nil,
                        !.wakeAt = now + interItemDelayMs]
    /\ UNCHANGED <<now, observe, extraction, limiterVars, throttleVars, storeVars, slot, scrapes>>

\* getFreshVideoUrl returns or throws
BgScrapeDone(freshVideoData) ==
    /\ Alive
    /\ bg.pc = "scraping"
    /\ IF freshVideoData.threw
       THEN BgNext([bg EXCEPT !.idx = @ + 1, !.calledAt = Nil])
       ELSE /\ bg' =
                IF /\ freshVideoData.success /\ freshVideoData.url # NoUrl
                   /\ IsDirectUrl(freshVideoData.url)
                THEN [bg EXCEPT !.pc = "writing", !.calledAt = Nil,
                                !.fresh = freshVideoData]
                ELSE [bg EXCEPT !.pc = "delay", !.calledAt = Nil,
                                !.wakeAt = now + interItemDelayMs]
            /\ UNCHANGED <<throttleVars, scrapes>>
    /\ UNCHANGED <<now, observe, extraction, limiterVars, storeVars, slot>>

\* the database runs the UPDATE of updateVideoCache, or fails to; the pass
\* makes no use of what the call returns
BgUpdate(dbOk) ==
    /\ Alive
    /\ bg.pc = "writing"
    /\ CacheUpdate(bg.batch[bg.idx], bg.fresh.url, bg.fresh.expiresAt, dbOk)
    /\ bg' = [bg EXCEPT !.pc = "written", !.fresh = NoFresh]
    /\ UNCHANGED <<now, observe, extraction, limiterVars, throttleVars, episodes, slot, scrapes>>

\* updateVideoCache returns: the pass sets the timeout between two entries
BgWrite ==
    /\ Alive
    /\ bg.pc = "written"
    /\ bg' = [bg EXCEPT !.pc = "delay", !.wakeAt = now + interItemDelayMs]
    /\ UNCHANGED <<now, observe, extraction, limiterVars, throttleVars, storeVars, slot,
                   scrapes>>

\* the wait between two entries is over
BgDelayDone ==
    /\ Alive
    /\ bg.pc = "delay" /\ now >= bg.wakeAt
    /\ BgNext([bg EXCEPT !.idx = @ + 1, !.wakeAt = Nil])
    /\ UNCHANGED <<now, observe, extraction, limiterVars, storeVars, slot>>

\* a step of checkAndRefresh: the database runs the SELECT, a call returns
\* or a timeout that is due fires
PassStep ==
    \/ \E dbOk \in BOOLEAN : BgSelect(dbOk)
    \/ BgQuery
    \/ BgWake
    \/ \E out \in Returns(bg) : BgScrapeDone(out)
    \/ \E dbOk \in BOOLEAN : BgUpdate(dbOk)
    \/ BgWrite
    \/ BgDelayDone

(***************************************************************************)
(* The server                                                              *)
(***************************************************************************)
\* the client has the response of slot s
Deliver(s) ==
    /\ slot[s].pc = "sent"
    /\ slot' = [slot EXCEPT ![s] = IdleSlot]
    /\ UNCHANGED <<now, observe, extraction, limiterVars, throttleVars, storeVars, bg,
                   scrapes>>

\* time passes on the server, which has started
Tick ==
    /\ Listening
    /\ \E t \in ServerTimes : t > now
    /\ now' = Min({t \in ServerTimes : t > now})
    /\ UNCHANGED <<observe, extraction, limiterVars, throttleVars, storeVars, slot, bg,
                   scrapes>>

\* a step of a client request
Serve ==
    \/ \E s \in Slots, route \in Routes :
            \E id \in RouteIds(route) : StartRequest(s, route, id)
    \/ \E s \in Slots, dbOk \in BOOLEAN : StatsSelect(s, dbOk)
    \/ \E s \in Slots : StatsCount(s)
    \/ \E s \in Slots, dbOk \in BOOLEAN : MovieRow(s, dbOk)
    \/ \E s \in Slots, dbOk \in BOOLEAN : MovieSelect(s, dbOk)
    \/ \E s \in Slots : MovieCached(s)
    \/ \E s \in Slots, urlWorks \in BOOLEAN : MovieProbe(s, urlWorks)
    \/ \E s \in Slots : \E out \in Returns(slot[s]) : MovieScrapeDone(s, out)
    \/ \E s \in Slots, dbOk \in BOOLEAN : MovieUpdate(s, dbOk)
    \/ \E s \in Slots : MovieWrite(s)
    \/ \E s \in Slots, dbOk \in BOOLEAN : RefreshRow(s, dbOk)
    \/ \E s \in Slots : \E out \in Returns(slot[s]) : RefreshScrapeDone(s, out)
    \/ \E s \in Slots, dbOk \in BOOLEAN : RefreshUpdate(s, dbOk)
    \/ \E s \in Slots : RefreshWrite(s)
    \/ \E s \in Slots, dbOk \in BOOLEAN : EpisodeSelect(s, dbOk)
    \/ \E s \in Slots : EpisodeRow(s)
    \/ \E s \in Slots : \E out \in Returns(slot[s]) : EpisodeScrapeDone(s, out)
    \/ \E s \in Slots, dbOk \in BOOLEAN : EpisodeUpdate(s, dbOk)
    \/ \E s \in Slots : EpisodeWrite(s)
    \/ \E s \in Slots : Deliver(s)

Next ==
    \/ Serve
    \/ BgStart
    \/ PassStep
    \/ Tick

Spec == Init /\ [][Next]_vars

SpecThrottle == InitThrottle /\ [][Next]_vars

SpecGrants == InitGrants /\ [][Next]_vars

SpecScrapes == InitScrapes /\ [][Next]_vars

(***************************************************************************)
(* The writers of the cache columns: cacheService.js called with any       *)
(* arguments, as its exports allow, the episode endpoint and the scheduler *)
(* up to its first wait, all of them before the clock moves                *)
(***************************************************************************)
UpdateArgs ==
    [movieId : {0, 1, MissingId},
     videoUrl : {NoUrl, DirectUrlOe},
     expiresAt : {Nil, InvalidDate, extractExpiration(DirectUrlOe, StartTime)}]

UpdateVideoCacheCall(args, dbOk) ==
    /\ Alive
    /\ CacheUpdate(args.movieId, args.videoUrl, args.expiresAt, dbOk)
    /\ UNCHANGED <<now, observe, extraction, limiterVars, throttleVars, episodes, slot, bg,
                   scrapes>>

ClearExpiredCacheCall ==
    /\ Alive
    /\ movies' = clearExpiredCache(movies, now)
    /\ UNCHANGED <<now, observe, extraction, limiterVars, throttleVars, episodes,
                   lastUpdate, slot, bg, scrapes>>

NextCacheService ==
    \/ \E args \in UpdateArgs, dbOk \in BOOLEAN : UpdateVideoCacheCall(args, dbOk)
    \/ ClearExpiredCacheCall
    \/ \E s \in Slots, id \in RouteIds("episode") : StartRequest(s, "episode", id)
    \/ \E s \in Slots, dbOk \in BOOLEAN : EpisodeSelect(s, dbOk)
    \/ \E s \in Slots : EpisodeRow(s)
    \/ \E s \in Slots : \E out \in Returns(slot[s]) : EpisodeScrapeDone(s, out)
    \/ \E s \in Slots, dbOk \in BOOLEAN : EpisodeUpdate(s, dbOk)
    \/ \E s \in Slots : EpisodeWrite(s)
    \/ \E s \in Slots : Deliver(s)
    \/ BgStart
    \/ \E dbOk \in BOOLEAN : BgSelect(dbOk)
    \/ BgQuery
    \/ \E out \in Returns(bg) : BgScrapeDone(out)
    \/ \E dbOk \in BOOLEAN : BgUpdate(dbOk)
    \/ BgWrite

SpecCacheService == InitCacheService /\ [][NextCacheService]_vars

(***************************************************************************)
(* The scheduler over several intervals: start() called again, and the     *)
(* passes begun by the interval timer                                      *)
(***************************************************************************)
\* backgroundRefresh.start() called once more
BgStartAgain ==
    /\ Alive
    /\ bg.startCalls \in 1..(MaxStartCalls - 1)
    /\ bg.isRunning \/ bg.passes < MaxPasses
    /\ bg' = [start(bg, now) EXCEPT !.startCalls = @ + 1]
    /\ UNCHANGED <<now, observe, extraction, limiterVars, throttleVars, storeVars, slot, scrapes>>

\* the instant at which the k-th interval timer fires next
TimerDue(b, k) ==
    b.timers[k].installedAt + (b.timers[k].fires + 1) * intervalMs

\* the k-th interval timer fires: checkAndRefresh begins a pass, whatever
\* the passes begun earlier are doing
BgTimerFire(k) ==
    /\ Alive
    /\ k \in DOMAIN bg.timers /\ now >= TimerDue(bg, k)
    /\ bg.passes < MaxPasses
    /\ bg' = [BeginPass(bg, now, FALSE) EXCEPT !.timers[k].fires = @ + 1]
    /\ UNCHANGED <<now, observe, extraction, limiterVars, throttleVars, storeVars, slot, scrapes>>

TimerFires == \E k \in 1..MaxStartCalls : BgTimerFire(k)

\* seq without its i-th element
Without(seq, i) == SubSeq(seq, 1, i - 1) \o SubSeq(seq, i + 1, Len(seq))

\* the event loop turns to another pass in flight
BgSwitch ==
    /\ Alive
    /\ \E i \in DOMAIN bg.others :
            bg' = [WithPass(bg, bg.others[i]) EXCEPT
                    !.others = IF bg.pc = "idle" THEN Without(@, i)
                               ELSE [@ EXCEPT ![i] = PassOf(bg)]]
    /\ UNCHANGED <<now, observe, extraction, limiterVars, throttleVars, storeVars, slot, scrapes>>

\* time passes until the next timeout of a pass is due or, with no pass in
\* flight or with the pass in hand awaiting a call named in slow, until the
\* next interval is due; an interval that is due fires before time moves on
TickTo(slow, maxPasses) ==
    LET inFlight == {PassOf(bg)} \cup {bg.others[i] : i \in DOMAIN bg.others}
        timeouts == {p.wakeAt : p \in {q \in inFlight :
                                            q.pc \in {"sleep", "delay"}}}
        live == bg.passes < maxPasses
        intervals ==
            IF /\ live
               /\ \/ bg.pc = "idle" /\ bg.others = << >>
                  \/ bg.pc \in slow
            THEN {TimerDue(bg, k) : k \in DOMAIN bg.timers}
            ELSE {}
        later == {t \in timeouts \cup intervals : t > now}
    IN  /\ Alive
        /\ later # {}
        /\ ~(live /\ \E k \in DOMAIN bg.timers : now >= TimerDue(bg, k))
        /\ now' = Min(later)
        /\ UNCHANGED <<observe, extraction, limiterVars, throttleVars, storeVars, slot, bg,
                       scrapes>>

\* the calls of a pass return before the next interval is due
BgTick == TickTo({}, MaxPasses)

NextBackground ==
    \/ BgStart
    \/ BgStartAgain
    \/ PassStep
    \/ TimerFires
    \/ BgTick
    \/ Tick

SpecBackground == Init /\ [][NextBackground]_vars

\* the same scheduler with the passes that ended in the catch recorded;
\* timers that are due fire, and time does not stop short of them
InitPassFailure == Start /\ observe = {"caught"}

SpecPassFailure ==
    /\ InitPassFailure /\ [][NextBackground]_vars
    /\ WF_vars(BgTick) /\ WF_vars(TimerFires)

(***************************************************************************)
(* One pass of the scheduler over a table of more rows than the batch      *)
(* holds, with expiries at and around the bounds of the SELECT             *)
(***************************************************************************)
QueryTimes == {StartTime, StartTime + 500}

\* url_expires_at as stored, in whole seconds, counted from the second of
\* the start: rows at and around the bounds of the SELECT with two of equal
\* expiry, rows an hour and three hours ahead, and more rows than a batch
\* holds with two of equal expiry at its end
QueryOffsets ==
    {<<0, 1000, 2000, 2000, 2 * HourMs - 1000, 2 * HourMs>>,
     <<1000, HourMs - 1000, HourMs, 3 * HourMs - 1000, 3 * HourMs,
       4 * HourMs>>,
     <<1000, 2000, 3000, 4000, 5000, 5000>>}

QueryTables ==
    {[i \in 1..MaxQueryRows |->
        IF i = 1 /\ bare THEN NoCacheRow
        ELSE CacheRow(DirectUrlNoOe,
                      FormatExpiry(StartTime)
                        + offsets[IF i <= Len(offsets) THEN i ELSE Len(offsets)])] :
        offsets \in QueryOffsets, bare \in BOOLEAN}

\* the zones the server is started in: one without a change, and zones
\* whose local clock goes forward or back by each of ClockShifts, either half
\* an hour after the start or so late that the local time setHours names is
\* one a forward change skips
QueryZones ==
    {NoChange} \cup
    {[at |-> StartTime + after, by |-> shift] :
        after \in {HourMs \div 2, 2 * HourMs - HourMs \div 4},
        shift \in ClockShifts}

InitQuery ==
    /\ now \in QueryTimes
    /\ movies \in QueryTables
    /\ episodes = EmptyTables.e
    /\ requests = [ip \in IPs |-> NoRecord]
    /\ lastScrapeTime = 0
    /\ slot = [s \in Slots |-> IdleSlot]
    /\ \E zone \in QueryZones : bg = [StoppedBg EXCEPT !.zone = zone]
    /\ lastCheck = NoCheck
    /\ winCalls = [ip \in IPs |-> 0]
    /\ probe = NoProbe
    /\ lastCan = NoCan
    /\ grantGap = NoGap
    /\ scrapes = NoScrapes
    /\ lastUpdate = NoUpdate
    /\ extraction = NoExtraction
    /\ observe = {}

\* the scraper answers with a direct link or reports failure
QueryOutcomes(outs) ==
    {out \in outs : ~out.threw /\ (out.success => IsDirectUrl(out.url))}

\* the server starts in a zone whose local clock may change within the hours
\* the threshold looks ahead, and the database takes its time over the SELECT
NextQuery ==
    \/ BgStart
    \/ BgSelect(TRUE)
    \/ BgQuery
    \/ \E out \in QueryOutcomes(Returns(bg)) : BgScrapeDone(out)
    \/ BgUpdate(TRUE)
    \/ BgWrite
    \/ BgDelayDone
    \/ BgTick
    \/ bg.pc = "query" /\ Tick

SpecQuery == InitQuery /\ [][NextQuery]_vars

(***************************************************************************)
(* Passes of the scheduler when a storage call of a pass does not return   *)
(* before the interval timer fires again                                   *)
(***************************************************************************)
\* time passes: a timeout of a pass elapses, or the interval does while the
\* scheduler is idle or a storage call has not returned
BgClock == TickTo({"query", "rows", "error", "writing", "written"}, MaxPasses)

\* rows that come within the refresh horizon during the second interval
OverlapTables ==
    [id \in MovieIds |->
        CacheRow(DirectUrlNoOe,
                 FormatExpiry(StartTime) + 2 * HourMs + HourMs \div 2
                    + id * 1000)]

InitOverlap ==
    /\ now = StartTime
    /\ movies = OverlapTables
    /\ episodes = EmptyTables.e
    /\ requests = [ip \in IPs |-> NoRecord]
    /\ lastScrapeTime = 0
    /\ slot = [s \in Slots |-> IdleSlot]
    /\ bg = StoppedBg
    /\ lastCheck = NoCheck
    /\ winCalls = [ip \in IPs |-> 0]
    /\ probe = NoProbe
    /\ lastCan = NoCan
    /\ grantGap = NoGap
    /\ scrapes = NoScrapes
    /\ lastUpdate = NoUpdate
    /\ extraction = NoExtraction
    /\ observe = {}

NextOverlap ==
    \/ BgStart
    \/ PassStep
    \/ TimerFires
    \/ BgSwitch
    \/ BgClock

SpecOverlap == InitOverlap /\ [][NextOverlap]_vars

(***************************************************************************)
(* Two passes of the scheduler, an interval apart, over a table in which   *)
(* more rows expire soon than a batch holds                                *)
(***************************************************************************)
\* every row expires soon, each at a second of its own: the first late rows
\* an hour and a half after the start, the others within seconds of it
NextPassTables ==
    {[i \in 1..MaxQueryRows |->
        CacheRow(DirectUrlNoOe,
                 FormatExpiry(StartTime) + i * 1000
                    + (IF i <= late THEN HourMs + HourMs \div 2 ELSE 0))] :
        late \in 0..MaxQueryRows}

\* the zones the server is started in: one without a change, one whose
\* local clock goes forward an hour and one whose local clock goes back an
\* hour, in both between the thresholds of the pass run by start() and of
\* the pass the timer begins an interval later
NextPassZones ==
    {NoChange,
     [at |-> StartTime + HourMs + HourMs \div 2, by |-> HourMs],
     [at |-> StartTime + 2 * HourMs + HourMs \div 2, by |-> -HourMs]}

InitNextPass ==
    /\ now = StartTime
    /\ movies \in NextPassTables
    /\ episodes = EmptyTables.e
    /\ requests = [ip \in IPs |-> NoRecord]
    /\ lastScrapeTime = 0
    /\ slot = [s \in Slots |-> IdleSlot]
    /\ \E zone \in NextPassZones : bg = [StoppedBg EXCEPT !.zone = zone]
    /\ lastCheck = NoCheck
    /\ winCalls = [ip \in IPs |-> 0]
    /\ probe = NoProbe
    /\ lastCan = NoCan
    /\ grantGap = NoGap
    /\ scrapes = NoScrapes
    /\ lastUpdate = NoUpdate
    /\ extraction = NoExtraction
    /\ observe = {"leftOut"}

NextNextPass ==
    \/ BgStart
    \/ BgSelect(TRUE)
    \/ BgQuery
    \/ \E out \in QueryOutcomes(Returns(bg)) : BgScrapeDone(out)
    \/ BgUpdate(TRUE)
    \/ BgWrite
    \/ BgDelayDone
    \/ TimerFires
    \/ BgTick

SpecNextPass == InitNextPass /\ [][NextNextPass]_vars

(***************************************************************************)
(* The scheduler started, stopped and started again                        *)
(***************************************************************************)
\* backgroundRefresh.stop(): the flag is cleared, the interval timer is not
stop(b) == [b EXCEPT !.isRunning = FALSE]

\* the SIGINT handler up to its await, each time the signal arrives: stop()
\* is called and db.end() begun
BgStop ==
    /\ Alive
    /\ bg' = [stop(bg) EXCEPT !.shutdown = "ending"]
    /\ UNCHANGED <<now, observe, extraction, limiterVars, throttleVars, storeVars, slot, scrapes>>

\* db.end() resolves and the SIGINT handler calls process.exit(0): no
\* callback of the process runs any more
BgExit ==
    /\ bg.shutdown = "ending"
    /\ bg' = [bg EXCEPT !.shutdown = "exited"]
    /\ UNCHANGED <<now, observe, extraction, limiterVars, throttleVars, storeVars, slot, scrapes>>

NextStop ==
    \/ BgStart
    \/ BgStop
    \/ BgExit
    \/ BgStartAgain
    \/ PassStep
    \/ TimerFires
    \/ BgSwitch
    \/ BgTick

\* one row of the table is within the horizon of the SELECT
InitStop ==
    /\ Init
    /\ movies = LegacyTables.m /\ episodes = LegacyTables.e

SpecStop == InitStop /\ [][NextStop]_vars

(***************************************************************************)
(* The pass run by start() and the pass begun by the interval timer, over  *)
(* a table in which more rows than a batch holds come within the horizon   *)
(* of the SELECT, with every outcome of the storage and of the scraper;    *)
(* every call returns and every timeout that is due fires                  *)
(***************************************************************************)
MaxTerminatePasses == 2

\* the last row expires an hour and a half after the start and the others
\* within seconds of it, each at a second of its own: all of them are within
\* the horizon of the SELECT, and the last is so still an interval later
TerminateTable ==
    [i \in 1..MaxQueryRows |->
        CacheRow(DirectUrlNoOe,
                 FormatExpiry(StartTime) + i * 1000
                    + (IF i = MaxQueryRows THEN HourMs + HourMs \div 2
                       ELSE 0))]

InitTerminate ==
    /\ now = StartTime
    /\ movies = TerminateTable
    /\ episodes = EmptyTables.e
    /\ requests = [ip \in IPs |-> NoRecord]
    /\ lastScrapeTime = 0
    /\ slot = [s \in Slots |-> IdleSlot]
    /\ bg = StoppedBg
    /\ lastCheck = NoCheck
    /\ winCalls = [ip \in IPs |-> 0]
    /\ probe = NoProbe
    /\ lastCan = NoCan
    /\ grantGap = NoGap
    /\ scrapes = NoScrapes
    /\ lastUpdate = NoUpdate
    /\ extraction = NoExtraction
    /\ observe = {}

\* time passes until the timeout of the pass is due or, between two passes,
\* until the interval timer is due: the calls of a pass return before then
TerminateTick == TickTo({}, MaxTerminatePasses)

NextTerminate ==
    \/ BgStart
    \/ PassStep
    \/ bg.passes < MaxTerminatePasses /\ TimerFires
    \/ TerminateTick

SpecTerminate ==
    /\ InitTerminate /\ [][NextTerminate]_vars
    /\ WF_vars(PassStep) /\ WF_vars(TerminateTick)

(***************************************************************************)
(* The scheduler on its own with a scraper and a storage that never fail   *)
(***************************************************************************)
\* every row expires at a second of its own: the first early rows half an
\* hour after the start, the others an hour and a half after it
ProactiveTables ==
    {[i \in 1..MaxQueryRows |->
        CacheRow(DirectUrlNoOe,
                 FormatExpiry(StartTime) + i * 1000
                    + (IF i <= early THEN HourMs \div 2
                       ELSE HourMs + HourMs \div 2))] :
        early \in 0..MaxQueryRows}

InitProactive ==
    /\ now = StartTime
    /\ movies \in ProactiveTables
    /\ episodes = EmptyTables.e
    /\ requests = [ip \in IPs |-> NoRecord]
    /\ lastScrapeTime = 0
    /\ slot = [s \in Slots |-> IdleSlot]
    /\ bg = StoppedBg
    /\ lastCheck = NoCheck
    /\ winCalls = [ip \in IPs |-> 0]
    /\ probe = NoProbe
    /\ lastCan = NoCan
    /\ grantGap = NoGap
    /\ scrapes = NoScrapes
    /\ lastUpdate = NoUpdate
    /\ extraction = NoExtraction
    /\ observe = {}

\* the scraper returns a direct link without an oe field, good for a day
ProactiveOutcomes(outs) ==
    {out \in outs : out.success /\ out.url = DirectUrlNoOe}

NextProactive ==
    \/ BgStart
    \/ BgSelect(TRUE)
    \/ BgQuery
    \/ \E out \in ProactiveOutcomes(Returns(bg)) : BgScrapeDone(out)
    \/ BgUpdate(TRUE)
    \/ BgWrite
    \/ BgDelayDone
    \/ TimerFires
    \/ BgTick

SpecProactive == InitProactive /\ [][NextProactive]_vars

(***************************************************************************)
(* Client requests for movies, one after the other, next to the scheduler  *)
(***************************************************************************)
InitRefresh ==
    /\ Start /\ observe = {"updateVideoCache", "previous"}
    /\ movies = FreshTables.m /\ episodes = FreshTables.e

NextRefresh ==
    \/ \E s \in Slots, route \in {"movie", "refresh"}, id \in MovieIds :
            StartRequest(s, route, id)
    \/ \E s \in Slots, dbOk \in BOOLEAN : MovieRow(s, dbOk)
    \/ \E s \in Slots, dbOk \in BOOLEAN : MovieSelect(s, dbOk)
    \/ \E s \in Slots : MovieCached(s)
    \/ \E s \in Slots, urlWorks \in BOOLEAN : MovieProbe(s, urlWorks)
    \/ \E s \in Slots : \E out \in Returns(slot[s]) : MovieScrapeDone(s, out)
    \/ \E s \in Slots, dbOk \in BOOLEAN : MovieUpdate(s, dbOk)
    \/ \E s \in Slots : MovieWrite(s)
    \/ \E s \in Slots, dbOk \in BOOLEAN : RefreshRow(s, dbOk)
    \/ \E s \in Slots : \E out \in Returns(slot[s]) : RefreshScrapeDone(s, out)
    \/ \E s \in Slots, dbOk \in BOOLEAN : RefreshUpdate(s, dbOk)
    \/ \E s \in Slots : RefreshWrite(s)
    \/ \E s \in Slots : Deliver(s)
    \/ BgStart
    \/ PassStep
    \/ Tick

SpecRefresh == InitRefresh /\ [][NextRefresh]_vars

(***************************************************************************)
(* extractExpiration on its own, called on every string of up to           *)
(* MaxUrlTokens pieces: with and without an oe field, the field named in   *)
(* either case, inside another name, with and without a hexadecimal value, *)
(* and on strings whose oe value is as long as the range of Date allows    *)
(* or longer                                                               *)
(***************************************************************************)
ExtractTokens == {"https://v.fbcdn.net/x.mp4", "?oe=", "&OE=", "_oe=", "1", "e", "zz"}

\* values of the oe field of MaxDateHex's length and longer: the first
\* count of seconds beyond the range of Date, twelve digits F, and small
\* values written with leading zeros
OversizeValues ==
    {[MaxDateHex EXCEPT ![Len(MaxDateHex)] = "1"],
     [i \in 1..(Len(MaxDateHex) + 1) |-> "F"],
     [i \in 1..Len(MaxDateHex) |-> IF i = Len(MaxDateHex) THEN "e" ELSE "0"],
     [i \in 1..(Len(MaxDateHex) + 1) |-> IF i = Len(MaxDateHex) + 1 THEN "1" ELSE "0"]}

ExtractInputs ==
    UNION {[1..n -> ExtractTokens] : n \in 0..MaxUrlTokens}
    \cup {<<"https://v.fbcdn.net/x.mp4", "?oe=">> \o value :
                value \in OversizeValues}

InitExtract ==
    /\ now \in ServerTimes
    /\ movies = EmptyTables.m
    /\ episodes = EmptyTables.e
    /\ requests = [ip \in IPs |-> NoRecord]
    /\ lastScrapeTime = 0
    /\ slot = [s \in Slots |-> IdleSlot]
    /\ bg = StoppedBg
    /\ lastCheck = NoCheck
    /\ winCalls = [ip \in IPs |-> 0]
    /\ probe = NoProbe
    /\ lastCan = NoCan
    /\ grantGap = NoGap
    /\ scrapes = NoScrapes
    /\ lastUpdate = NoUpdate
    /\ \E url \in ExtractInputs :
            extraction = [NoExtraction EXCEPT !.url = url]
    /\ observe = {}

\* extractExpiration(url) called now, on the string of this behaviour
ExtractCall ==
    /\ Alive
    /\ extraction.at = Nil
    /\ extraction' = [extraction EXCEPT
                        !.at = now,
                        !.expiresAt = extractExpiration(extraction.url, now)]
    /\ UNCHANGED <<now, observe, limiterVars, throttleVars, storeVars, slot, bg,
                   scrapes>>

NextExtract == ExtractCall

SpecExtract == InitExtract /\ [][NextExtract]_vars

(***************************************************************************)
(* The server after its listen callback, the first pass awaiting its       *)
(* SELECT, with a client that has used, or nearly used, the requests of    *)
(* its window                                                              *)
(***************************************************************************)
InitDenied ==
    /\ now = StartTime
    /\ movies = FreshTables.m
    /\ episodes = FreshTables.e
    /\ \E used \in {maxRequests - 1, maxRequests} :
            requests = [ip \in IPs |->
                            IF ip = ClientIp
                            THEN [count |-> used, resetTime |-> StartTime + windowMs]
                            ELSE NoRecord]
    /\ lastScrapeTime = 0
    /\ slot = [s \in Slots |-> IdleSlot]
    /\ bg = [start(StoppedBg, StartTime) EXCEPT !.startCalls = 1]
    /\ lastCheck = NoCheck
    /\ winCalls = [ip \in IPs |-> 0]
    /\ probe = NoProbe
    /\ lastCan = NoCan
    /\ grantGap = NoGap
    /\ scrapes = NoScrapes
    /\ lastUpdate = NoUpdate
    /\ extraction = NoExtraction
    /\ observe = {}

NextDenied ==
    \/ Serve
    \/ PassStep
    \/ Tick

SpecDenied == InitDenied /\ [][NextDenied]_vars

(***************************************************************************)
(* Movie requests, next to the scheduler, over rows of which either cache   *)
(* column may be NULL                                                      *)
(***************************************************************************)
CacheReadRows ==
    {NoCacheRow, CacheRow(DirectUrlNoOe, Nil), CacheRow(NoUrl, SoonExpiry),
     CacheRow(DirectUrlNoOe, SoonExpiry)}

CacheReadTables ==
    {mv \in [MovieIds -> CacheReadRows] : mv[3] = NoCacheRow}

InitCacheRead ==
    /\ now = StartTime
    /\ movies \in CacheReadTables
    /\ episodes = EmptyTables.e
    /\ requests = [ip \in IPs |-> NoRecord]
    /\ lastScrapeTime = 0
    /\ slot = [s \in Slots |-> IdleSlot]
    /\ bg = StoppedBg
    /\ lastCheck = NoCheck
    /\ winCalls = [ip \in IPs |-> 0]
    /\ probe = NoProbe
    /\ lastCan = NoCan
    /\ grantGap = NoGap
    /\ scrapes = NoScrapes
    /\ lastUpdate = NoUpdate
    /\ extraction = NoExtraction
    /\ observe = {}

NextCacheRead ==
    \/ \E s \in Slots, id \in MovieIds : StartRequest(s, "movie", id)
    \/ \E s \in Slots, dbOk \in BOOLEAN : MovieRow(s, dbOk)
    \/ \E s \in Slots, dbOk \in BOOLEAN : MovieSelect(s, dbOk)
    \/ \E s \in Slots : MovieCached(s)
    \/ \E s \in Slots, urlWorks \in BOOLEAN : MovieProbe(s, urlWorks)
    \/ \E s \in Slots : \E out \in Returns(slot[s]) : MovieScrapeDone(s, out)
    \/ \E s \in Slots, dbOk \in BOOLEAN : MovieUpdate(s, dbOk)
    \/ \E s \in Slots : MovieWrite(s)
    \/ \E s \in Slots : Deliver(s)
    \/ BgStart
    \/ PassStep
    \/ Tick

SpecCacheRead == InitCacheRead /\ [][NextCacheRead]_vars

(***************************************************************************)
(* Properties                                                              *)
(***************************************************************************)
\* C1 as stated: canScrape() returns allowed = true iff now - lastScrapeTime
\* >= minDelayMs at the call; a grant sets lastScrapeTime = now in the same
\* step and a denial leaves it unchanged; of any two successive calls less than
\* minDelayMs apart the second is denied, and of two at least minDelayMs apart
\* both are granted.
C1_IffElapsedAndAnyTwoCalls ==
    lastCan.at # Nil =>
        /\ lastCan.allowed <=> lastCan.at - lastCan.before >= minDelayMs
        /\ lastCan.after = IF lastCan.allowed THEN lastCan.at ELSE lastCan.before
        /\ lastScrapeTime = lastCan.after
        /\ lastCan.prevAt # Nil =>
                /\ lastCan.at - lastCan.prevAt < minDelayMs => ~lastCan.allowed
                /\ lastCan.at - lastCan.prevAt >= minDelayMs =>
                        lastCan.allowed /\ lastCan.prevAllowed

\* C1 amended: canScrape() returns allowed = true iff now - lastScrapeTime >=
\* minDelayMs at the call; a grant sets lastScrapeTime = now in the same step
\* and a denial leaves it unchanged; a call less than minDelayMs after a
\* granted call is denied, and a call at least minDelayMs after any call is
\* granted.
C1_IffElapsedAndAfterGrant ==
    lastCan.at # Nil =>
        /\ lastCan.allowed <=> lastCan.at - lastCan.before >= minDelayMs
        /\ lastCan.after = IF lastCan.allowed THEN lastCan.at ELSE lastCan.before
        /\ lastScrapeTime = lastCan.after
        /\ lastCan.prevAt # Nil =>
                /\ lastCan.prevAllowed /\ lastCan.at - lastCan.prevAt < minDelayMs
                        => ~lastCan.allowed
                /\ lastCan.at - lastCan.prevAt >= minDelayMs => lastCan.allowed

\* C1 witness: a call made after a granted one and before minDelayMs is over
\* was denied with a wait, lastScrapeTime still the instant of that grant.
C1_Witness ==
    /\ lastCan.prevAllowed
    /\ lastCan.at > lastCan.prevAt
    /\ lastCan.at - lastCan.prevAt < minDelayMs
    /\ ~lastCan.allowed
    /\ lastCan.waitTime = CeilDiv(minDelayMs - (lastCan.at - lastCan.prevAt), 1000)
    /\ lastScrapeTime = lastCan.prevAt

\* C2 as stated: every call of getFreshVideoUrl, from any path, follows a
\* canScrape() call of the same caller that returned allowed = true for it.
C2_EveryScrapeHasItsGrant == scrapes.lastAt # Nil => scrapes.granted

\* C3 as stated: any two calls of getFreshVideoUrl, whoever makes them, start
\* at least minDelayMs apart.
C3_ScrapesAtLeastMinDelayApart ==
    scrapes.prevAt # Nil => scrapes.lastAt - scrapes.prevAt >= minDelayMs

\* C4: under every interleaving of the client handlers and the background
\* pass, any two consecutive grants of canScrape() are at least minDelayMs
\* apart.
C4_ConsecutiveGrantsApart ==
    grantGap.prev # Nil => grantGap.last - grantGap.prev >= minDelayMs

\* C4 witness: a grant exactly minDelayMs after the one before it, while the
\* background pass and a client request are both in progress.
C4_Witness ==
    /\ grantGap.prev # Nil
    /\ grantGap.last - grantGap.prev = minDelayMs
    /\ bg.pc \in {"scraping", "sleep", "writing", "delay"}
    /\ \E s \in Slots : slot[s].pc \notin {"idle", "sent"}


\* C5: within one window of a key exactly the first maxRequests check calls
\* are allowed and every further one is denied; a call finds a fresh window
\* exactly when the key has no record or now > resetTime, is then allowed,
\* and leaves count = 1 and resetTime = now + windowMs.
C5_FirstNAllowedThenFreshWindow ==
    lastCheck.ip # "" =>
        /\ lastCheck.allowed <=> lastCheck.nth <= maxRequests
        /\ lastCheck.fresh <=>
                \/ lastCheck.before = NoRecord
                \/ lastCheck.at > lastCheck.before.resetTime
        /\ lastCheck.fresh =>
                /\ lastCheck.allowed
                /\ lastCheck.after =
                        [count |-> 1, resetTime |-> lastCheck.at + windowMs]

\* C5 witness: a call past the reset instant of an exhausted window (its
\* maxRequests calls were allowed and a further one denied) opens a window
C5_Witness ==
    /\ lastCheck.fresh
    /\ lastCheck.before.count = maxRequests
    /\ lastCheck.at > lastCheck.before.resetTime
    /\ lastCheck.at < lastCheck.before.resetTime + cleanupGraceMs

\* C6 as stated: no interval of length windowMs holds more than maxRequests
\* allowed calls of one key.
C6_AtMostMaxPerInterval == probe.count <= maxRequests

\* C6 amended: an interval of length windowMs that begins with the call
\* opening a window holds at most maxRequests allowed calls of the key; any
\* other interval of that length holds at most 2 * maxRequests - 1.
C6_AtMostMaxPerWindow ==
    /\ probe.opensWindow => probe.count <= maxRequests
    /\ probe.count <= 2 * maxRequests - 1

\* C6 witness: an interval across a reset instant with 2 * maxRequests - 1
\* allowed calls
C6_Witness == probe.count = 2 * maxRequests - 1


\* the response of a finished request, with the cache evaluation behind it
Sent(s) == slot[s].pc = "sent"

\* C7 as stated: no response of GET /api/video/:id or GET /api/video/episode/:id
\* served from cache carries a URL without the direct-link shape.
C7_CachedResponseIsDirect ==
    \A s \in Slots :
        Sent(s) /\ slot[s].resp.cached => IsDirectUrl(slot[s].resp.url)

\* C8: a cache whose expiry is <= now when it is evaluated is classified
\* valid = false, and a response with cached: true carries only a URL whose
\* expiry was > now at that evaluation, on the movie and the episode endpoint.
C8_ExpiredNeverServedFromCache ==
    \A s \in Slots :
        /\ slot[s].cachedVideo.expiresAt # Nil
                /\ slot[s].cachedVideo.expiresAt <= slot[s].evalAt
            => ~slot[s].cachedVideo.valid
        /\ Sent(s) /\ slot[s].resp.cached =>
                /\ slot[s].cachedVideo.valid
                /\ slot[s].cachedVideo.expiresAt > slot[s].evalAt
                /\ slot[s].resp.url = slot[s].cachedVideo.url

\* C8 witness: a request that found a cached URL expiring at the very instant
\* of the evaluation was answered, and not from cache.
C8_Witness ==
    \E s \in Slots :
        /\ Sent(s)
        /\ slot[s].cachedVideo.url # NoUrl
        /\ slot[s].cachedVideo.expiresAt = slot[s].evalAt
        /\ ~slot[s].cachedVideo.valid
        /\ ~slot[s].resp.cached

StoredUrls ==
    {movies[id].cached_video_url : id \in MovieIds}
        \cup {episodes[id].cached_video_url : id \in EpisodeIds}

OnlyDirectStored == \A url \in StoredUrls : url = NoUrl \/ IsDirectUrl(url)

\* C9 as stated: on every path that calls the scraper a result that is not
\* direct-shaped is never returned and never written: a store whose cached
\* URLs are all direct-shaped stays so.
C9_NonDirectNeverReturnedNorStored ==
    /\ [](\A s \in Slots :
            Sent(s) /\ slot[s].route \in VideoRoutes /\ slot[s].resp.success
                => IsDirectUrl(slot[s].resp.url) \/ slot[s].resp.cached)
    /\ [][OnlyDirectStored => OnlyDirectStored']_vars

Paired(row) == (row.cached_video_url = NoUrl) <=> (row.url_expires_at = Nil)

\* C10: in every reachable state each row has cached_video_url and
\* url_expires_at both set or both absent, whichever writer ran last, and an
\* updateVideoCache call with a missing id, URL or expiry returned false and
\* wrote nothing.
C10_ColumnsPairedMissingArgRefused ==
    /\ \A id \in MovieIds : Paired(movies[id])
    /\ \A id \in EpisodeIds : Paired(episodes[id])
    /\ lastUpdate.called
            /\ (lastUpdate.videoUrl = NoUrl \/ lastUpdate.expiresAt = Nil)
        => ~lastUpdate.ret /\ ~lastUpdate.wrote

\* C10 witness: updateVideoCache was called for a row that holds a cached URL,
\* with an expiry and without a URL; it returned false and the row is whole.
C10_Witness ==
    /\ lastUpdate.called
    /\ lastUpdate.movieId \in MovieIds
    /\ lastUpdate.videoUrl = NoUrl
    /\ lastUpdate.expiresAt # Nil
    /\ ~lastUpdate.ret
    /\ movies[lastUpdate.movieId].cached_video_url # NoUrl
    /\ movies[lastUpdate.movieId].url_expires_at # Nil

\* what a handler leaves alone when it neither asks the throttle, nor calls
\* the scraper, nor writes the cache columns
NoThrottleNoWrite ==
    /\ lastScrapeTime' = lastScrapeTime
    /\ movies' = movies
    /\ episodes' = episodes

\* the step of the handler in slot s that ends in state pc
StepTo(s, pc) == slot'[s] # slot[s] /\ slot'[s].pc = pc

\* C11: a request of GET /api/video/:id whose probe of an unexpired,
\* direct-shaped cached URL succeeded is answered success = true, cached =
\* true with exactly the URL read from the row, and none of its steps called
\* canScrape (lastScrapeTime unchanged), called the scraper or wrote the
\* cache columns.
C11_CacheHitServesCachedUrlOnly ==
    [][\A s \in Slots :
        /\ StepTo(s, "read") \/ StepTo(s, "getCached") \/ StepTo(s, "probe")
            => NoThrottleNoWrite
        /\ StepTo(s, "probe") =>
            /\ slot[s].pc = "getCached" /\ slot[s].held.run /\ slot[s].held.ok
            /\ slot[s].held.rows[slot[s].id].url_expires_at > now
            /\ IsDirectUrl(slot[s].held.rows[slot[s].id].cached_video_url)
            /\ slot'[s].cachedVideo =
                    [valid |-> TRUE,
                     url |-> slot[s].held.rows[slot[s].id].cached_video_url,
                     expiresAt |-> slot[s].held.rows[slot[s].id].url_expires_at]
        /\ StepTo(s, "sent") /\ slot'[s].probed = "ok" =>
            /\ slot[s].pc = "probe"
            /\ slot'[s].resp =
                    Success(slot[s].cachedVideo.url, TRUE,
                            slot[s].cachedVideo.expiresAt)
            /\ NoThrottleNoWrite
      ]_vars

\* C11 witness: a cache hit answered while the throttle holds the stamp of a
\* scrape made by somebody else.
C11_Witness ==
    \E s \in Slots :
        /\ Sent(s) /\ slot[s].route = "movie" /\ slot[s].probed = "ok"
        /\ slot[s].resp.cached /\ slot[s].resp.url = slot[s].cachedVideo.url
        /\ lastScrapeTime > 0

\* the row of the entry the handler in slot s works on
RowOf(s, mv, ep) ==
    IF slot[s].route = "episode" THEN ep[slot[s].id] ELSE mv[slot[s].id]

\* C12: on GET /api/video/:id and GET /api/video/episode/:id, when the entry
\* has no cache fields, the throttle granted and the scraper returned the
\* direct-shaped URL U with expiry E, and the write went through, the client
\* receives success = true, cached = false, url = U and the row afterwards
\* holds cached_video_url = U and url_expires_at = E, the scraper's expiry.
C12_StoredFieldsMatchScraperResult ==
    [][\A s \in Slots :
        /\ slot[s].pc = "writing" /\ slot[s].route \in {"movie", "episode"}
           /\ ~slot[s].held.run /\ slot'[s].held.run /\ slot'[s].held.ok
           /\ RowOf(s, movies, episodes) = NoCacheRow
           => RowOf(s, movies', episodes') =
                    CacheRow(slot[s].fresh.url, slot[s].fresh.expiresAt)
        /\ StepTo(s, "sent") /\ slot[s].pc = "writing"
           /\ slot[s].route \in {"movie", "episode"}
           /\ slot'[s].persisted = "ok"
           => /\ slot'[s].resp.success /\ ~slot'[s].resp.cached
              /\ slot'[s].resp.url = slot[s].fresh.url
      ]_vars

\* C13: on every path that serves cached URLs (GET /api/video/:id and GET
\* /api/video/episode/:id) a cached URL that fails the reachability probe is
\* a miss: a request whose probe failed is never answered from the cache, and
\* a response with cached = true is sent only after validateUrl succeeded on
\* the cached URL.
C13_FailedProbeIsMiss ==
    \A s \in Slots :
        /\ slot[s].probed = "failed" =>
                slot[s].pc \in {"scraping", "writing", "sent"}
        /\ Sent(s) /\ slot[s].probed = "failed" => ~slot[s].resp.cached
        /\ Sent(s) /\ slot[s].resp.cached => slot[s].probed = "ok"

\* C14: on GET /api/video/:id and GET /api/video/episode/:id, when the cache
\* is unusable and canScrape denies (less than minDelayMs since the last
\* grant), the handler answers 429 with retryAfter = waitTime in that same
\* step: the scraper is not called, nothing is written, lastScrapeTime is
\* unchanged and the handler neither waits nor retries. These handlers call
\* the scraper only at an instant at which canScrape allows.
C14_DeniedIs429WithRetryAfter ==
    [][\A s \in Slots :
        /\ StepTo(s, "sent")
           /\ slot'[s].resp.error = "Facebook scraping rate limit"
           => /\ slot[s].route \in {"movie", "episode"}
              /\ slot[s].pc \in {"read", "getCached", "probe"}
              /\ now - lastScrapeTime < minDelayMs
              /\ slot'[s].resp =
                    TooMany("Facebook scraping rate limit",
                            CeilDiv(minDelayMs - (now - lastScrapeTime), 1000))
              /\ NoThrottleNoWrite
        /\ StepTo(s, "scraping") /\ slot[s].route \in {"movie", "episode"}
           => /\ now - lastScrapeTime >= minDelayMs
              /\ lastScrapeTime' = now
      ]_vars

\* C14 witness: a movie request whose cached URL failed the probe is refused
\* by the throttle with the remaining wait in seconds.
C14_Witness ==
    \E s \in Slots :
        /\ Sent(s) /\ slot[s].route = "movie" /\ slot[s].probed = "failed"
        /\ slot[s].resp.status = 429
        /\ slot[s].resp.error = "Facebook scraping rate limit"
        /\ slot[s].resp.retryAfter = 3

\* C15: on GET /api/video/:id and GET /api/video/episode/:id, when the write
\* of the freshly scraped URL and expiry fails, the handler still answers
\* success = true with the fresh URL; the failed write never turns into a
\* failed response.
C15_FailedWriteStillSucceeds ==
    [][\A s \in Slots :
        /\ StepTo(s, "sent") /\ slot[s].pc = "writing"
        /\ slot[s].route \in {"movie", "episode"}
        /\ slot'[s].persisted = "failed"
        => /\ slot'[s].resp.success /\ slot'[s].resp.status = 200
           /\ ~slot'[s].resp.cached
           /\ slot'[s].resp.url = slot[s].fresh.url
      ]_vars

\* the kind of failure an error message of the read handlers stands for
ErrorKind(error) ==
    IF error = "Facebook scraping rate limit" THEN "Throttled"
    ELSE IF error = "URL expired and cannot extract Facebook ID for re-scraping"
    THEN "UnresolvableIdentifier"
    ELSE IF error = "Could not extract direct video URL"
    THEN "IndirectUrlRejected"
    ELSE IF error \in {"Failed to retrieve video URL from Facebook",
                       "Failed to retrieve episode video URL from Facebook",
                       "Scraping failed"}
    THEN "ScrapeFailed"
    ELSE IF error \in {"Invalid video ID", "Invalid episode ID"}
    THEN "InvalidInput"
    ELSE "Other"

\* C16: a failure response of GET /api/video/:id (and of the episode
\* endpoint) carries status 429 when throttled, 500 for an unresolvable
\* identifier, a rejected indirect URL or a scrape failure, and 400 for
\* invalid input.
C16_FailureStatusMapping ==
    \A s \in Slots :
        Sent(s) /\ ~slot[s].resp.success
                /\ slot[s].route \in {"movie", "episode"} =>
            LET kind == ErrorKind(slot[s].resp.error) IN
            /\ kind = "Throttled" => slot[s].resp.status = 429
            /\ kind \in {"UnresolvableIdentifier", "IndirectUrlRejected",
                          "ScrapeFailed"} => slot[s].resp.status = 500
            /\ kind = "InvalidInput" => slot[s].resp.status = 400

\* column video_url of the entry the handler in slot s works on
SourceOf(s) ==
    IF slot[s].route = "episode" THEN EpisodeVideoUrl(slot[s].id)
    ELSE MovieVideoUrl(slot[s].id)

\* the entry exists and its source is an expired CDN link without a video id
Unresolvable(s) ==
    /\ slot[s].id \in (IF slot[s].route = "episode" THEN EpisodeIds ELSE MovieIds)
    /\ IsFacebookCDN(SourceOf(s))
    /\ extractExpiration(SourceOf(s), now) <= now
    /\ VideoIdMatch(SourceOf(s)) = << >>

\* C17: on GET /api/video/:id and GET /api/video/episode/:id, when the
\* stored source is an expired CDN link from which no video id can be
\* extracted, the request fails with the unresolvable-identifier error
\* before the throttle is consulted: lastScrapeTime is unchanged (no
\* canScrape call, hence no 429), the scraper is not called and nothing is
\* written. The error is given for such a source only.
C17_UnresolvableFailsBeforeThrottle ==
    [][\A s \in Slots :
        /\ StepTo(s, "sent")
           /\ ErrorKind(slot'[s].resp.error) = "UnresolvableIdentifier"
           => /\ Unresolvable(s)
              /\ slot[s].pc \in {"read", "getCached", "probe"}
              /\ NoThrottleNoWrite
        /\ slot'[s] # slot[s] /\ Unresolvable(s)
           /\ slot[s].route \in {"movie", "episode"}
           /\ slot[s].pc \in {"read", "getCached", "probe"}
           => /\ NoThrottleNoWrite
              /\ slot'[s].pc \in {"read", "getCached", "probe", "sent"}
              /\ StepTo(s, "sent") =>
                    \/ slot'[s].resp.cached
                    \/ slot'[s].resp.error = "Internal server error"
                    \/ ErrorKind(slot'[s].resp.error) = "UnresolvableIdentifier"
      ]_vars

\* C17 witness: the movie whose source cannot be resolved is refused with
\* that error at an instant at which the throttle would have denied.
C17_Witness ==
    \E s \in Slots :
        /\ Sent(s) /\ slot[s].route = "movie" /\ Unresolvable(s)
        /\ ErrorKind(slot[s].resp.error) = "UnresolvableIdentifier"
        /\ now - lastScrapeTime < minDelayMs

\* C18: two client refreshes of the same movie, one after the other, both
\* granted and both ending in a successful write, leave the row with the
\* URL and the expiry of the second call: the row always holds the pair
\* written by the latest successful updateVideoCache call for it, so the
\* first call's pair does not survive and the two columns never come from
\* different calls.
C18_LastWriteWins ==
    /\ lastUpdate.called /\ lastUpdate.ret =>
            movies[lastUpdate.movieId] =
                CacheRow(lastUpdate.videoUrl, FormatExpiry(lastUpdate.expiresAt))
    /\ lastUpdate.called /\ ~lastUpdate.ret
            /\ lastUpdate.prev.called /\ lastUpdate.prev.ret =>
            movies[lastUpdate.prev.movieId] =
                CacheRow(lastUpdate.prev.videoUrl,
                         FormatExpiry(lastUpdate.prev.expiresAt))

\* C18 witness: the second of two successful refreshes of one movie has
\* returned; it scraped another URL with another expiry than the first.
C18_Witness ==
    \E s \in Slots :
        /\ Sent(s) /\ slot[s].persisted = "ok" /\ slot[s].route = "movie"
        /\ lastUpdate.ret /\ lastUpdate.prev.ret
        /\ lastUpdate.movieId = slot[s].id
        /\ lastUpdate.prev.movieId = lastUpdate.movieId
        /\ lastUpdate.prev.videoUrl # lastUpdate.videoUrl
        /\ FormatExpiry(lastUpdate.prev.expiresAt)
                # FormatExpiry(lastUpdate.expiresAt)
        /\ movies[slot[s].id].cached_video_url = slot[s].resp.url

\* C19: backgroundRefresh.start() called while stopped sets isRunning and
\* begins one pass in the same step; when that pass has ended it installs
\* one interval timer, and from then on a pass begins only when that timer
\* fires, intervalMs after the installation and every intervalMs after
\* that. start() called while running changes nothing: no pass, no timer.
C19_StartRunsOnePassThenOneTimer ==
    /\ [](/\ Len(bg.timers) <= 1
          /\ bg.isRunning /\ bg.timers = << >> =>
                bg.starting /\ bg.passes = 1
          /\ Len(bg.timers) = 1 =>
                ~bg.starting /\ bg.passes = bg.timers[1].fires + 1)
    /\ [][/\ bg'.startCalls # bg.startCalls /\ ~bg.isRunning
             => /\ bg'.isRunning /\ bg'.pc = "query" /\ bg'.starting
                /\ bg'.passes = bg.passes + 1 /\ bg'.timers = bg.timers
          /\ bg'.startCalls # bg.startCalls /\ bg.isRunning
             => /\ bg' = [bg EXCEPT !.startCalls = @ + 1]
                /\ UNCHANGED <<now, lastScrapeTime, movies, episodes>>
          /\ Len(bg'.timers) # Len(bg.timers)
             => /\ bg.starting /\ bg.timers = << >>
                /\ bg'.timers = <<[installedAt |-> now, fires |-> 0]>>
                /\ bg.passes = 1 /\ bg'.pc = "idle"
          /\ bg'.passes # bg.passes /\ bg'.startCalls = bg.startCalls
             => /\ Len(bg.timers) = 1 /\ bg.pc = "idle" /\ bg'.pc = "query"
                /\ bg'.passes = bg.passes + 1
                /\ bg'.timers[1].fires = bg.timers[1].fires + 1
                /\ now = bg.timers[1].installedAt + bg.passes * intervalMs
       ]_vars

\* C19 witness: start() has been called again while running, and the second
\* pass of the one timer has just begun, two intervals after the first pass
\* ended.
C19_Witness ==
    /\ bg.isRunning /\ bg.startCalls >= 2 /\ Len(bg.timers) = 1
    /\ bg.passes = 3 /\ bg.timers[1].fires = 2 /\ bg.pc = "query"
    /\ now = bg.timers[1].installedAt + 2 * intervalMs

\* a row expiring within the refresh horizon of refreshBeforeExpiryHours
\* elapsed hours, with the instants compared as they are
ExpiresWithinHorizon(row, t) ==
    /\ row.cached_video_url # NoUrl /\ row.url_expires_at # Nil
    /\ t < row.url_expires_at
    /\ row.url_expires_at < t + refreshBeforeExpiryHours * HourMs

\* the step of a pass in which its SELECT finds batch, the rows that
\* qualify being those of the set ids
SelectsSoonest(ids, batch) ==
    LET k == Cardinality(ids)
        at(i) == movies[batch[i]].url_expires_at
    IN  /\ Len(batch) = (IF k < batchLimit THEN k ELSE batchLimit)
        /\ \A i \in 1..Len(batch) : batch[i] \in ids
        /\ \A i, j \in 1..Len(batch) : i < j => batch[i] # batch[j] /\ at(i) <= at(j)
        /\ \A q \in ids : \A i \in 1..Len(batch) :
                (\A j \in 1..Len(batch) : batch[j] # q) =>
                    at(i) <= movies[q].url_expires_at

\* the steps of a pass after its SELECT: the entries of the batch are taken
\* one after the other, the scraper is called for each, and a write changes
\* the row of the entry in hand and no other
ProcessesBatchOnly ==
    /\ bg.pc \notin {"query", "rows"} /\ bg'.idx # bg.idx =>
            /\ bg.pc \in {"scraping", "delay"}
            /\ \/ bg'.idx = bg.idx + 1 /\ bg.idx < Len(bg.batch)
                  /\ bg'.batch = bg.batch
               \/ bg'.idx = 0 /\ bg.idx = Len(bg.batch) /\ bg'.pc = "idle"
    /\ bg.pc # "query" /\ bg'.idx = bg.idx => bg'.batch = bg.batch
    /\ movies' # movies =>
            /\ bg.pc = "writing" /\ bg.idx \in 1..Len(bg.batch)
            /\ \A id \in DOMAIN movies :
                    id # bg.batch[bg.idx] => movies'[id] = movies[id]

\* C20 as stated: a pass processes exactly the min(5, k) soonest-expiring of
\* the k entries with a cached URL and now < url_expires_at < now +
\* refreshBeforeExpiryHours, in ascending order of expiry, and touches no
\* other entry.
C20_PassTakesSoonestFiveOfQualifying ==
    [][/\ bg.pc = "query" /\ bg' # bg =>
            /\ SelectsSoonest({id \in DOMAIN movies :
                                    ExpiresWithinHorizon(movies[id], now)},
                              bg'.batch)
            /\ bg'.pc = "rows"
       /\ bg.pc = "rows" => bg'.idx = (IF bg.batch = << >> THEN 0 ELSE 1)
       /\ ProcessesBatchOnly
      ]_vars

\* C21: the entries a pass found qualifying but left out of its batch of 5
\* are in the batch of the next pass the timer starts.
C21_LeftOutTakenByNextPass ==
    [][bg.pc = "query" /\ bg' # bg /\ bg.leftOut # {} =>
            \A id \in bg.leftOut :
                \E i \in 1..Len(bg'.batch) : bg'.batch[i] = id
      ]_vars

\* C22: the scheduler never has two scraper calls in flight: the entries of
\* a pass are scraped one after the other, and no pass scrapes while
\* another pass started by the interval timer is scraping.
C22_OneScrapeInFlight ==
    Cardinality({i \in 0..Len(bg.others) :
                    IF i = 0 THEN bg.pc = "scraping"
                    ELSE bg.others[i].pc = "scraping"}) <= 1

\* C23: within a pass no outcome of an entry (scraper failure, indirect link,
\* exception, failed write) ends the pass early: the pass ends only after
\* its last entry, and the entries are taken one by one in batch order,
\* each handed to the scraper.
C23_FailureNeverAbortsBatch ==
    [][/\ bg.pc \in {"scraping", "writing", "written", "delay", "sleep"}
       /\ PassOf(bg') # PassOf(bg)
       =>
            IF bg'.pc = "idle"
            THEN bg.idx = Len(bg.batch)
            ELSE /\ bg'.batch = bg.batch
                 /\ bg'.idx \in {bg.idx, bg.idx + 1}
                 /\ bg'.idx = bg.idx + 1 => bg'.pc \in {"scraping", "sleep"}
                 /\ bg.pc = "sleep" => bg'.pc = "scraping"
      ]_vars

\* the second entry of a batch is with the scraper and the first entry was
\* not refreshed
C23_Witness ==
    /\ bg.pc = "scraping" /\ bg.idx = 2
    /\ movies[bg.batch[1]].cached_video_url = DirectUrlNoOe

\* C24: a pass that fails as a whole (its SELECT throws) is caught: the
\* scheduler stays running with its one timer installed, also when the
\* failed pass is the one start() ran, and the next pass starts when the
\* interval has elapsed.
C24_FailedPassKeepsSchedule ==
    /\ [](bg.caught /\ bg.pc = "idle" =>
                bg.isRunning /\ ~bg.starting /\ Len(bg.timers) = 1)
    /\ [][bg.caught /\ bg.pc = "idle" /\ bg'.pc # "idle" =>
                /\ bg'.pc = "query" /\ bg'.passes = bg.passes + 1
                /\ now = TimerDue(bg, 1)
         ]_vars
    /\ (bg.caught /\ bg.pc = "idle" /\ bg.passes < MaxPasses)
            ~> (bg.caught /\ bg.pc = "query")

\* the pass start() ran has failed, and the timer has started the next pass
C24_Witness ==
    /\ bg.caught /\ bg.pc = "query" /\ bg.passes = 2
    /\ Len(bg.timers) = 1 /\ bg.timers[1].fires = 1

\* C25: with a scraper that always succeeds, every movie whose cached link
\* comes within refreshBeforeExpiryHours of expiring is refreshed by the
\* scheduler before it expires: no row ever holds an expired link.
C25_RefreshedBeforeExpiry ==
    \A id \in DOMAIN movies : movies[id].url_expires_at > now

\* a row of which cached_video_url or url_expires_at is NULL
LacksCache(row) == row.cached_video_url = NoUrl \/ row.url_expires_at = Nil

\* C26: for a row of which cached_video_url or url_expires_at is absent
\* (both, or either one of the pair) getCachedVideo reports valid = false,
\* url = null, expiresAt = null, and the movie endpoint goes on to reacquire
\* the link: it probes and serves nothing cached, and either answers as the
\* resolution of the source or the throttle decides, or calls the scraper.
C26_AbsentCacheIsMiss ==
    [][\A s \in Slots :
            /\ slot[s].pc = "getCached" /\ slot'[s].pc # "getCached"
            /\ slot[s].held.ok /\ slot[s].id \in DOMAIN slot[s].held.rows
            /\ LacksCache(slot[s].held.rows[slot[s].id])
            =>
            /\ \A dbOk \in BOOLEAN :
                    getCachedVideo(slot[s].held.rows, slot[s].id, now, dbOk)
                        = NoCachedVideo
            /\ slot'[s].cachedVideo = NoCachedVideo
            /\ LET source == Resolve(MovieVideoUrl(slot[s].id), now) IN
               IF source.tag # "scrape"
               THEN slot'[s].pc = "sent" /\ slot'[s].resp = source.resp
               ELSE IF canScrape(lastScrapeTime, now).allowed
               THEN slot'[s].pc = "scraping" /\ lastScrapeTime' = now
               ELSE /\ slot'[s].pc = "sent" /\ slot'[s].resp.status = 429
                    /\ lastScrapeTime' = lastScrapeTime
      ]_vars

\* the scraper is called for a movie whose row has a link and no expiry
C26_Witness ==
    \E s \in Slots :
        /\ slot[s].pc = "scraping" /\ slot[s].route = "movie"
        /\ movies[slot[s].id].cached_video_url # NoUrl
        /\ movies[slot[s].id].url_expires_at = Nil

\* C27: a client denied by rateLimiter.check with retryAfter = r whose next
\* request comes r * 1000 ms after the denial is allowed.
C27_RetryAfterIsEnough ==
    [][/\ lastCheck.ip # "" /\ ~lastCheck.allowed
       /\ lastCheck' # lastCheck /\ lastCheck'.ip = lastCheck.ip
       /\ lastCheck'.at = lastCheck.at + lastCheck.retryAfter * 1000
       => lastCheck'.allowed
      ]_vars

\* C28: when rateLimiter.check denies, remaining is 0 and retryAfter is the
\* time left until resetTime in seconds, rounded up: the least whole number
\* of seconds that is not less than resetTime - now.
C28_DenialRemainingAndRetryAfter ==
    lastCheck.ip # "" /\ ~lastCheck.allowed =>
        LET left == lastCheck.before.resetTime - lastCheck.at IN
        /\ lastCheck.remaining = 0
        /\ lastCheck.retryAfter * 1000 >= left
        /\ (lastCheck.retryAfter - 1) * 1000 < left
        /\ lastCheck.after = lastCheck.before

\* a denial with a time left that is not a whole number of seconds
C28_Witness ==
    /\ lastCheck.ip # "" /\ ~lastCheck.allowed
    /\ (lastCheck.before.resetTime - lastCheck.at) % 1000 # 0

\* the value of a run of hexadecimal digits, most significant first
RECURSIVE HexDecoded(_, _)
HexDecoded(digits, acc) ==
    IF digits = << >> THEN acc
    ELSE HexDecoded(Tail(digits), 16 * acc + HexValue[Head(digits)])

\* C29: extractExpiration is total. For a string that contains an oe query
\* parameter with a hexadecimal value (after '?' or '&') it returns the
\* instant that value gives as seconds since the epoch, read from the first
\* such parameter; for every other string it returns the instant of the call
\* plus 24 hours; it returns an instant for every string.
C29_ExtractExpirationTotal ==
    extraction.at # Nil =>
        LET url == extraction.url
            fields == {i \in 1..(Len(url) - 1) :
                            /\ url[i] \in OeMarkers
                            /\ url[i + 1] \in DOMAIN HexValue}
        IN  /\ extraction.expiresAt \notin {Nil, InvalidDate}
            /\ IF fields = {}
               THEN extraction.expiresAt = extraction.at + 24 * HourMs
               ELSE LET i == CHOOSE j \in fields : \A k \in fields : j <= k
                        last == CHOOSE j \in (i + 1)..Len(url) :
                                    /\ \A k \in (i + 1)..j : url[k] \in DOMAIN HexValue
                                    /\ j = Len(url) \/ url[j + 1] \notin DOMAIN HexValue
                    IN  extraction.expiresAt =
                            HexDecoded(SubSeq(url, i + 1, last), 0) * 1000

\* C30: in a pass the next entry is only started after the 5 s wait that
\* follows the entry before it, whatever the outcome of that entry was
\* (refreshed, scraper failure, indirect link, exception).
C30_DelayAfterEveryEntry ==
    [][/\ bg.pc \in {"scraping", "writing", "written", "delay"}
       /\ bg'.idx = bg.idx + 1 /\ bg'.pc \in {"scraping", "sleep"}
       => bg.pc = "delay" /\ now >= bg.wakeAt
      ]_vars

\* C31: a pass changes the cache columns only of the entry of its batch it
\* is working on, and only after the scraper succeeded for it with a direct
\* link; entries whose scrape failed, threw or gave an indirect link, and
\* rows outside the batch, keep both columns; episodes are not touched.
C31_PassWritesOnlyRefreshedEntries ==
    [][/\ episodes' = episodes
       /\ movies' # movies =>
            /\ bg.pc = "writing"
            /\ bg.idx \in 1..Len(bg.batch)
            /\ bg.fresh.success /\ ~bg.fresh.threw
            /\ IsDirectUrl(bg.fresh.url)
            /\ \A id \in DOMAIN movies :
                    id # bg.batch[bg.idx] => movies'[id] = movies[id]
            /\ movies'[bg.batch[bg.idx]] =
                    CacheRow(bg.fresh.url, FormatExpiry(bg.fresh.expiresAt))
       /\ bg.pc = "scraping" => movies' = movies
      ]_vars

\* the first entry of the batch was refreshed, the second was handled and
\* keeps the link it had
C31_Witness ==
    /\ bg.pc = "delay" /\ bg.idx = 2
    /\ movies[bg.batch[1]].cached_video_url = DirectUrlOe
    /\ movies[bg.batch[2]] = FreshTables.m[bg.batch[2]]

\* C32: a record leaves the limiter map only in a sweep, and a sweep deletes
\* a record if and only if now > resetTime + windowMs at the sweep: a record
\* whose window is active, or ended at most one window length ago, stays.
C32_SweepDeletesOnlyOldRecords ==
    [][\A ip \in IPs :
            HasRecord(requests, ip) =>
                /\ ~HasRecord(requests', ip) =>
                        /\ now > requests[ip].resetTime + windowMs
                        /\ now' = now /\ lastCheck' = lastCheck
                /\ now' = now /\ lastCheck' = lastCheck =>
                        IF now > requests[ip].resetTime + windowMs
                        THEN ~HasRecord(requests', ip)
                        ELSE requests'[ip] = requests[ip]
      ]_vars

\* a sweep has deleted the record of one address and kept the record of the
\* other, whose window ended exactly one window length ago
C32_Witness ==
    /\ lastCheck.ip = "10.0.0.1" /\ ~HasRecord(requests, "10.0.0.1")
    /\ HasRecord(requests, "10.0.0.2")
    /\ now = requests["10.0.0.2"].resetTime + windowMs

\* C33: sweeps interleaved with check calls change no check result: every
\* call returns the same allowed, remaining and retryAfter as the same call
\* in the same sequence of timed calls on a limiter that is never swept.
C33_SweepChangesNoResult ==
    lastCheck.ip # "" =>
        /\ lastCheck.allowed = lastCheck.twin.allowed
        /\ lastCheck.remaining = lastCheck.twin.remaining
        /\ lastCheck.retryAfter = lastCheck.twin.retryAfter

\* a call for an address whose record a sweep had deleted, while the map
\* that is never swept still held it
C33_Witness ==
    /\ lastCheck.ip # "" /\ lastCheck.before = NoRecord
    /\ lastCheck.twin.before # NoRecord

\* C34: every record in the limiter map has 1 <= count <= maxRequests: no
\* sequence of allowed and denied calls takes the counter past the limit.
C34_CountWithinLimit ==
    \A ip \in IPs :
        requests[ip] # NoRecord =>
            requests[ip].count >= 1 /\ requests[ip].count <= maxRequests

\* a second call was denied on a record whose counter is at the limit
C34_Witness ==
    /\ lastCheck.ip # "" /\ ~lastCheck.allowed
    /\ lastCheck.nth = maxRequests + 2
    /\ requests[lastCheck.ip].count = maxRequests

\* C35: the window is fixed: while now <= resetTime no check call, allowed
\* or denied, changes the resetTime of the record, and a check for one key
\* leaves the record of every other key as it is.
C35_FixedWindowPerKey ==
    [][lastCheck' # lastCheck =>
            \A ip \in IPs :
                /\ ip # lastCheck'.ip => requests'[ip] = requests[ip]
                /\ HasRecord(requests, ip) /\ now <= requests[ip].resetTime =>
                        requests'[ip].resetTime = requests[ip].resetTime
      ]_vars

\* a call denied half a second after its window opened: the record keeps
\* its reset instant, and the map holds a record of the other key
C35_Witness ==
    /\ lastCheck.ip # "" /\ ~lastCheck.allowed
    /\ lastCheck.at = lastCheck.before.resetTime - windowMs + 500
    /\ requests[lastCheck.ip].resetTime = lastCheck.before.resetTime
    /\ \E ip \in IPs : ip # lastCheck.ip /\ HasRecord(requests, ip)

\* C36: when canScrape() denies, waitTime is the time still to wait,
\* minDelayMs - (now - lastScrapeTime), in seconds rounded up, which lies
\* between 1 and ceil(minDelayMs / 1000); the denial leaves lastScrapeTime
\* as it is, and lastScrapeTime is stamped only in the step of a call that
\* is granted: the throttle holds no caller back and calls again for none.
C36_DenialWaitTime ==
    /\ [](lastCan.at # Nil /\ ~lastCan.allowed =>
            LET left == minDelayMs - (lastCan.at - lastCan.before) IN
            /\ lastCan.waitTime * 1000 >= left
            /\ (lastCan.waitTime - 1) * 1000 < left
            /\ lastCan.waitTime >= 1
            /\ (lastCan.waitTime - 1) * 1000 < minDelayMs
            /\ lastCan.after = lastCan.before)
    /\ [][lastScrapeTime' # lastScrapeTime =>
            /\ lastCan' # lastCan /\ lastCan'.allowed
            /\ lastCan'.at = now /\ lastScrapeTime' = now
         ]_vars

\* a denial with half a second left to wait: waitTime is 1
C36_Witness ==
    /\ lastCan.at # Nil /\ ~lastCan.allowed
    /\ minDelayMs - (lastCan.at - lastCan.before) = 500
    /\ lastCan.waitTime = 1

\* C37: a request the per-client limiter denies is answered 429 by the
\* middleware in the step of its arrival, before any route handler: in that
\* step no table and no throttle state changes, the scraper is not called,
\* and after the answer the request takes no further step but its delivery.
C37_DeniedRequestTouchesNothing ==
    [][\A s \in Slots :
            /\ slot[s].pc = "idle" /\ slot'[s] # slot[s]
               /\ slot'[s].route \notin BeforeLimiter
               /\ ~check(requests, ClientIp, now).allowed
               =>
               /\ slot'[s].pc = "sent"
               /\ slot'[s].resp =
                    TooMany("Too many requests",
                            check(requests, ClientIp, now).retryAfter)
               /\ movies' = movies /\ episodes' = episodes
               /\ lastScrapeTime' = lastScrapeTime
               /\ lastCan' = lastCan /\ scrapes' = scrapes
               /\ lastUpdate' = lastUpdate
            /\ slot[s].pc = "sent" /\ slot'[s] # slot[s] =>
                    slot'[s] = IdleSlot /\ UNCHANGED <<storeVars, throttleVars>>
      ]_vars

\* a request for a movie was denied by the limiter and answered 429
C37_Witness ==
    \E s \in Slots :
        /\ slot[s].pc = "sent" /\ slot[s].route = "movie"
        /\ slot[s].resp.status = 429
        /\ slot[s].resp.error = "Too many requests"
        /\ slot[s].resp.retryAfter = 60
        /\ requests[ClientIp].count = maxRequests

\* C38: stop() halts the scheduler: once stop() has been called the interval
\* timer starts no pass, and over any sequence of start() and stop() calls
\* at most one interval timer is installed.
C38_StopHaltsScheduler ==
    /\ [](Len(bg.timers) <= 1)
    /\ [][~bg.isRunning /\ bg.startCalls >= 1 =>
                \A k \in DOMAIN bg.timers :
                    bg'.timers[k].fires <= bg.timers[k].fires]_vars

\* C39: every background pass terminates: when each scraper call and each
\* storage call returns, a started pass reaches its end, whatever the
\* throttle answers and whatever the outcome of each entry, after taking at
\* most batchLimit entries one after the other.
C39_PassTerminates ==
    /\ [](/\ Len(bg.batch) <= batchLimit
          /\ bg.idx <= Len(bg.batch) + 1
          /\ bg.pc \in {"sleep", "scraping", "writing", "written", "delay"} =>
                    bg.idx \in 1..Len(bg.batch))
    /\ [][bg.pc \notin {"idle", "stopped", "query"} /\ bg'.pc # "idle" =>
                bg'.batch = bg.batch /\ bg'.idx \in {bg.idx, bg.idx + 1}]_vars
    /\ bg.pc \notin {"idle", "stopped"} ~> bg.pc = "idle"

\* the pass begun by the timer has ended over a table of six rows within
\* the horizon: five of them have been refreshed, the sixth is as it was
C39_Witness ==
    /\ bg.pc = "idle" /\ bg.passes = 2
    /\ Len(bg.timers) = 1 /\ bg.timers[1].fires = 1
    /\ Cardinality({i \in DOMAIN movies :
                        movies[i].cached_video_url # DirectUrlNoOe}) = batchLimit
    /\ Cardinality(Matching(TerminateTable, expiryThreshold(StartTime, NoChange),
                            StartTime)) > batchLimit

====
